---------------------------- MODULE Spec2Model ----------------------------
(***************************************************************************)
(* A model of the Game Boy emulator core: the timer (src/src/timer), the   *)
(* cartridge with its MBC1 latches (src/src/cartridge), the memory bus     *)
(* (src/src/memory), the instruction interpreter (src/src/cpu) and the     *)
(* stepper (src/src/gameboy).                                              *)
(*                                                                         *)
(* Numbers are written in decimal; the hexadecimal form used by the source *)
(* is given in the comments.  A Rust panic (todo!(), an index out of       *)
(* bounds, the unmapped-opcode panic!) is recorded in the variable fault: *)
(* the operation that panics leaves the machine as it found it and no      *)
(* further operation runs.                                                 *)
(***************************************************************************)
EXTENDS Integers, Sequences, FiniteSets, TLC

VARIABLES
    cpu,      \* Cpu: registers, flags, pc, sp, halted, interrupts_enabled
    memory,   \* Memory: data, cartridge (Option), timer
    fault,    \* "none", or the kind of panic that ended the program
    last,     \* the most recent operation: its arguments and what it returned
    hist      \* history counters of the timer unit (cycles ticked, calls)

vars == <<cpu, memory, fault, last, hist>>

(***************************************************************************)
(* u8 / u16 arithmetic and the bit operators of the source.                *)
(***************************************************************************)
Byte == 0 .. 255

U8(x) == x % 256

U16(x) == x % 65536

RECURSIVE BitAndN(_, _, _)
BitAndN(x, y, n) ==
    IF n = 0 THEN 0
    ELSE (x % 2) * (y % 2) + 2 * BitAndN(x \div 2, y \div 2, n - 1)

RECURSIVE BitOrN(_, _, _)
BitOrN(x, y, n) ==
    IF n = 0 THEN 0
    ELSE (IF (x % 2) + (y % 2) > 0 THEN 1 ELSE 0)
         + 2 * BitOrN(x \div 2, y \div 2, n - 1)

RECURSIVE BitXorN(_, _, _)
BitXorN(x, y, n) ==
    IF n = 0 THEN 0
    ELSE ((x + y) % 2) + 2 * BitXorN(x \div 2, y \div 2, n - 1)

BitAnd(x, y) == BitAndN(x, y, 16)

BitOr(x, y) == BitOrN(x, y, 16)

BitXor(x, y) == BitXorN(x, y, 16)

\* !x on a u8
BitNot8(x) == 255 - x

\* 1 << bit, bit in 0..7
Pow2(n) == CASE n = 0 -> 1 [] n = 1 -> 2 [] n = 2 -> 4 [] n = 3 -> 8
             [] n = 4 -> 16 [] n = 5 -> 32 [] n = 6 -> 64 [] OTHER -> 128

\* u8::from(bool)
B2N(b) == IF b THEN 1 ELSE 0

(***************************************************************************)
(* A Vec<u8> that starts as zeros is kept as the map of its non-zero       *)
(* bytes.                                                                  *)
(***************************************************************************)
ZeroVec == [x \in {} |-> 0]

VecGet(v, i) == IF i \in DOMAIN v THEN v[i] ELSE 0

VecSet(v, i, b) ==
    IF b = 0
    THEN [x \in (DOMAIN v) \ {i} |-> v[x]]
    ELSE [x \in (DOMAIN v) \cup {i} |-> IF x = i THEN b ELSE v[x]]

(***************************************************************************)
(* Timer (src/src/timer/mod.rs).                                           *)
(***************************************************************************)
DIV == 65284     \* 0xFF04

TIMA == 65285    \* 0xFF05

TMA == 65286     \* 0xFF06

TAC == 65287     \* 0xFF07

Timer_new ==
    [div_counter |-> 0, tima |-> 0, tma |-> 0, tac |-> 0, tima_counter |-> 0]

\* tick with a saturating add in place of wrapping_add
tick_saturating(t, cycles) ==
    [timer    |-> [t EXCEPT !.div_counter =
                      IF t.div_counter + cycles > 65535 THEN 65535
                      ELSE t.div_counter + cycles],
     overflow |-> TRUE]

\* tick returns the timer after the call and the bool it reports
tick(t, cycles) ==
    [timer    |-> [t EXCEPT !.div_counter = U16(t.div_counter + cycles)],
     overflow |-> TRUE]

read_register(t, address) ==
    CASE address = DIV -> [fault |-> "none", val |-> t.div_counter \div 256]
      [] address = TAC -> [fault |-> "none", val |-> t.tac]
      [] OTHER         -> [fault |-> "todo", val |-> 0]

write_register(t, address, value) ==
    CASE address = DIV -> [fault |-> "none", timer |-> [t EXCEPT !.div_counter = 0]]
      [] address = TAC -> [fault |-> "none", timer |-> [t EXCEPT !.tac = value]]
      [] OTHER         -> [fault |-> "todo", timer |-> t]

is_timer_enabled(t) == BitAnd(t.tac, 4) # 0

get_tima_frequency(t) ==
    CASE BitAnd(t.tac, 3) = 0 -> 1024
      [] BitAnd(t.tac, 3) = 1 -> 16
      [] BitAnd(t.tac, 3) = 2 -> 64
      [] OTHER                -> 256

(***************************************************************************)
(* Cartridge (src/src/cartridge/mod.rs).  A ROM image is the file read by  *)
(* Cartridge::load: its length, the three header bytes the loader decodes  *)
(* and a fill pattern for every other byte.                                *)
(***************************************************************************)
RomImage(len, type, romCode, ramCode) ==
    [len |-> len, type |-> type, romCode |-> romCode, ramCode |-> ramCode]

\* rom[i] for i < rom.len()
RomAt(rom, i) ==
    CASE i = 327 -> rom.type        \* 0x0147
      [] i = 328 -> rom.romCode     \* 0x0148
      [] i = 329 -> rom.ramCode     \* 0x0149
      [] OTHER   -> (i + 7 * (i \div 16384) + 1) % 256

CartridgeType_from(value) ==
    CASE value = 0 -> "RomOnly"
      [] value = 1 -> "Mbc1"
      [] value = 2 -> "Mbc1Ram"
      [] value = 3 -> "Mbc1RamBattery"
      [] OTHER     -> "Unknown"

RamSizeOf(code) ==
    CASE code = 0 -> 0
      [] code = 1 -> 2048
      [] code = 2 -> 8192
      [] code = 3 -> 32768
      [] code = 4 -> 131072
      [] OTHER    -> 65536

RECURSIVE RomBanksOf(_)
RomBanksOf(code) == IF code = 0 THEN 2 ELSE 2 * RomBanksOf(code - 1)

\* from_rom without the test of the file's length
CartridgeHeader_from_rom_unchecked_length(rom) ==
    IF RomAt(rom, 328) > 8 \/ RomAt(rom, 329) > 5
    THEN [ok |-> FALSE]
    ELSE [ok             |-> TRUE,
          cartridge_type |-> CartridgeType_from(RomAt(rom, 327)),
          rom_size       |-> RomBanksOf(RomAt(rom, 328)) * 16384,
          ram_size       |-> RamSizeOf(RomAt(rom, 329))]

CartridgeHeader_from_rom(rom) ==
    IF rom.len < 336                          \* 0x0150
    THEN [ok |-> FALSE]
    ELSE IF RomAt(rom, 328) > 8 \/ RomAt(rom, 329) > 5
    THEN [ok |-> FALSE]
    ELSE [ok             |-> TRUE,
          cartridge_type |-> CartridgeType_from(RomAt(rom, 327)),
          rom_size       |-> RomBanksOf(RomAt(rom, 328)) * 16384,
          ram_size       |-> RamSizeOf(RomAt(rom, 329))]

Cartridge_load(rom) ==
    LET header == CartridgeHeader_from_rom(rom) IN
    IF ~header.ok
    THEN <<>>
    ELSE << [rom          |-> rom,
             ram          |-> ZeroVec,
             ram_len      |-> header.ram_size,
             header       |-> header,
             rom_bank     |-> 1,
             ram_bank     |-> 0,
             ram_enabled  |-> FALSE,
             banking_mode |-> 0] >>

Cartridge_read_byte(c, addr) ==
    IF addr <= 16383                                         \* 0x0000..=0x3FFF
    THEN IF addr < c.rom.len
         THEN [fault |-> "none", val |-> RomAt(c.rom, addr)]
         ELSE [fault |-> "index", val |-> 0]
    ELSE IF addr <= 32767                                    \* 0x4000..=0x7FFF
    THEN LET offset == (c.rom_bank * 16384) + (addr - 16384) IN
         [fault |-> "none",
          val   |-> IF offset < c.rom.len THEN RomAt(c.rom, offset) ELSE 255]
    ELSE IF addr >= 40960 /\ addr <= 49151                   \* 0xA000..=0xBFFF
    THEN LET offset == (c.ram_bank * 8192) + (addr - 40960) IN
         [fault |-> "none",
          val   |-> IF c.ram_enabled /\ c.ram_len # 0 /\ offset < c.ram_len
                    THEN VecGet(c.ram, offset)
                    ELSE 255]
    ELSE [fault |-> "none", val |-> 255]

\* write_mbc1 with the ROM-bank write also resetting the banking mode
write_mbc1_bank_write_resets_mode(c, addr, value) ==
    IF addr >= 8192 /\ addr <= 16383
    THEN LET bank == value % 32 IN
         [c EXCEPT !.rom_bank = IF bank = 0 THEN 1 ELSE bank,
                   !.banking_mode = 0]
    ELSE IF addr <= 8191
    THEN [c EXCEPT !.ram_enabled = (value % 16 = 10)]
    ELSE IF addr <= 24575
    THEN LET bank == value % 4 IN
         IF c.banking_mode = 0
         THEN [c EXCEPT !.rom_bank = BitOr(c.rom_bank % 32, bank * 32)]
         ELSE [c EXCEPT !.ram_bank = bank]
    ELSE IF addr <= 32767
    THEN [c EXCEPT !.banking_mode = value % 2]
    ELSE IF addr >= 40960 /\ addr <= 49151
    THEN LET offset == (c.ram_bank * 8192) + (addr - 40960) IN
         IF c.ram_enabled /\ c.ram_len # 0 /\ offset < c.ram_len
         THEN [c EXCEPT !.ram = VecSet(c.ram, offset, value)]
         ELSE c
    ELSE c

write_mbc1(c, addr, value) ==
    IF addr <= 8191                                          \* 0x0000..=0x1FFF
    THEN [c EXCEPT !.ram_enabled = (value % 16 = 10)]
    ELSE IF addr <= 16383                                    \* 0x2000..=0x3FFF
    THEN LET bank == value % 32 IN
         [c EXCEPT !.rom_bank = IF bank = 0 THEN 1 ELSE bank]
    ELSE IF addr <= 24575                                    \* 0x4000..=0x5FFF
    THEN LET bank == value % 4 IN
         IF c.banking_mode = 0
         THEN [c EXCEPT !.rom_bank = BitOr(c.rom_bank % 32, bank * 32)]
         ELSE [c EXCEPT !.ram_bank = bank]
    ELSE IF addr <= 32767                                    \* 0x6000..=0x7FFF
    THEN [c EXCEPT !.banking_mode = value % 2]
    ELSE IF addr >= 40960 /\ addr <= 49151                   \* 0xA000..=0xBFFF
    THEN LET offset == (c.ram_bank * 8192) + (addr - 40960) IN
         IF c.ram_enabled /\ c.ram_len # 0 /\ offset < c.ram_len
         THEN [c EXCEPT !.ram = VecSet(c.ram, offset, value)]
         ELSE c
    ELSE c

\* write_byte whose ROM-bank write stores the low five bits as they come
Cartridge_write_byte_allows_bank_zero(c, addr, value) ==
    IF c.header.cartridge_type \in {"Mbc1", "Mbc1Ram", "Mbc1RamBattery"}
    THEN IF addr >= 8192 /\ addr <= 16383
         THEN [c EXCEPT !.rom_bank = value % 32]
         ELSE write_mbc1(c, addr, value)
    ELSE c

\* write_byte storing an external-RAM byte in bank 0 whatever ram_bank is
Cartridge_write_byte_unbanked_ram(c, addr, value) ==
    IF c.header.cartridge_type \in {"Mbc1", "Mbc1Ram", "Mbc1RamBattery"}
    THEN IF addr >= 40960 /\ addr <= 49151
         THEN [write_mbc1([c EXCEPT !.ram_bank = 0], addr, value)
                   EXCEPT !.ram_bank = c.ram_bank]
         ELSE write_mbc1(c, addr, value)
    ELSE c

\* write_byte with the 0x4000-0x5FFF write always taken as ROM-bank bits
Cartridge_write_byte_upper_bits_ignore_mode(c, addr, value) ==
    IF c.header.cartridge_type \in {"Mbc1", "Mbc1Ram", "Mbc1RamBattery"}
    THEN IF addr >= 16384 /\ addr <= 24575
         THEN [c EXCEPT !.rom_bank = BitOr(c.rom_bank % 32, (value % 4) * 32)]
         ELSE write_mbc1(c, addr, value)
    ELSE c

\* write_byte handing the write of every cartridge type to the MBC1 latches
Cartridge_write_byte_any_type(c, addr, value) == write_mbc1(c, addr, value)

Cartridge_write_byte(c, addr, value) ==
    IF c.header.cartridge_type \in {"Mbc1", "Mbc1Ram", "Mbc1RamBattery"}
    THEN write_mbc1(c, addr, value)
    ELSE c

(***************************************************************************)
(* Memory bus (src/src/memory/mod.rs).                                     *)
(***************************************************************************)
IF_ADDR == 65295     \* 0xFF0F, the interrupt-request byte

Memory_new == [data |-> ZeroVec, cartridge |-> <<>>, timer |-> Timer_new]

load_cartridge(m, cartridge) == [m EXCEPT !.cartridge = <<cartridge>>]

InCartridgeRange(address) ==
    address <= 32767 \/ (address >= 40960 /\ address <= 49151)

\* read_byte with external RAM readable whether or not it is enabled
Memory_read_byte_ungated(m, address) ==
    IF InCartridgeRange(address)
    THEN IF m.cartridge # <<>>
         THEN Cartridge_read_byte([m.cartridge[1] EXCEPT !.ram_enabled = TRUE], address)
         ELSE [fault |-> "none", val |-> VecGet(m.data, address)]
    ELSE IF address >= DIV /\ address <= TAC
    THEN read_register(m.timer, address)
    ELSE [fault |-> "none", val |-> VecGet(m.data, address)]

\* read_byte with the switchable window always showing bank 1
Memory_read_byte_fixed_window(m, address) ==
    IF InCartridgeRange(address)
    THEN IF m.cartridge # <<>>
         THEN Cartridge_read_byte([m.cartridge[1] EXCEPT !.rom_bank = 1], address)
         ELSE [fault |-> "none", val |-> VecGet(m.data, address)]
    ELSE IF address >= DIV /\ address <= TAC
    THEN read_register(m.timer, address)
    ELSE [fault |-> "none", val |-> VecGet(m.data, address)]

Memory_read_byte(m, address) ==
    IF InCartridgeRange(address)
    THEN IF m.cartridge # <<>>
         THEN Cartridge_read_byte(m.cartridge[1], address)
         ELSE [fault |-> "none", val |-> VecGet(m.data, address)]
    ELSE IF address >= DIV /\ address <= TAC
    THEN read_register(m.timer, address)
    ELSE [fault |-> "none", val |-> VecGet(m.data, address)]

\* write_byte that also stores a timer-register write in the array
Memory_write_byte_shadows_timer(m, address, value) ==
    IF InCartridgeRange(address)
    THEN IF m.cartridge # <<>>
         THEN [fault |-> "none",
               mem   |-> [m EXCEPT !.cartridge =
                            << Cartridge_write_byte(m.cartridge[1], address, value) >>]]
         ELSE [fault |-> "none",
               mem   |-> [m EXCEPT !.data = VecSet(m.data, address, value)]]
    ELSE IF address >= DIV /\ address <= TAC
    THEN LET w == write_register(m.timer, address, value) IN
         [fault |-> w.fault,
          mem   |-> [m EXCEPT !.timer = w.timer,
                              !.data = VecSet(m.data, address, value)]]
    ELSE [fault |-> "none",
          mem   |-> [m EXCEPT !.data = VecSet(m.data, address, value)]]

\* write_byte with work RAM mirrored into the echo region and back
Memory_write_byte_mirrors_echo(m, address, value) ==
    IF InCartridgeRange(address)
    THEN IF m.cartridge # <<>>
         THEN [fault |-> "none",
               mem   |-> [m EXCEPT !.cartridge =
                            << Cartridge_write_byte(m.cartridge[1], address, value) >>]]
         ELSE [fault |-> "none",
               mem   |-> [m EXCEPT !.data = VecSet(m.data, address, value)]]
    ELSE IF address >= DIV /\ address <= TAC
    THEN LET w == write_register(m.timer, address, value) IN
         [fault |-> w.fault, mem |-> [m EXCEPT !.timer = w.timer]]
    ELSE IF address >= 49152 /\ address <= 56831
    THEN [fault |-> "none",
          mem   |-> [m EXCEPT !.data = VecSet(VecSet(m.data, address, value),
                                              address + 8192, value)]]
    ELSE [fault |-> "none",
          mem   |-> [m EXCEPT !.data = VecSet(m.data, address, value)]]

Memory_write_byte(m, address, value) ==
    IF InCartridgeRange(address)
    THEN IF m.cartridge # <<>>
         THEN [fault |-> "none",
               mem   |-> [m EXCEPT !.cartridge =
                            << Cartridge_write_byte(m.cartridge[1], address, value) >>]]
         ELSE [fault |-> "none",
               mem   |-> [m EXCEPT !.data = VecSet(m.data, address, value)]]
    ELSE IF address >= DIV /\ address <= TAC
    THEN LET w == write_register(m.timer, address, value) IN
         [fault |-> w.fault, mem |-> [m EXCEPT !.timer = w.timer]]
    ELSE [fault |-> "none",
          mem   |-> [m EXCEPT !.data = VecSet(m.data, address, value)]]

(***************************************************************************)
(* Registers and flags (src/src/cpu/registers.rs).                         *)
(***************************************************************************)
Flags_new == [z |-> FALSE, n |-> FALSE, h |-> FALSE, c |-> FALSE]

to_u8(f) == 128 * B2N(f.z) + 64 * B2N(f.n) + 32 * B2N(f.h) + 16 * B2N(f.c)

\* set_from_u8 taking the flags from bits 3-0
set_from_u8_low_bits(value) ==
    [z |-> BitAnd(value, 8) # 0,
     n |-> BitAnd(value, 4) # 0,
     h |-> BitAnd(value, 2) # 0,
     c |-> BitAnd(value, 1) # 0]

set_from_u8(value) ==
    [z |-> BitAnd(value, 128) # 0,
     n |-> BitAnd(value, 64) # 0,
     h |-> BitAnd(value, 32) # 0,
     c |-> BitAnd(value, 16) # 0]

Cpu_new ==
    [a |-> 1, f |-> Flags_new, b |-> 0, c |-> 19, d |-> 0, e |-> 216,
     h |-> 1, l |-> 77,
     pc |-> 256, sp |-> 65534, halted |-> FALSE, interrupts_enabled |-> FALSE]

af(c) == c.a * 256 + to_u8(c.f)

bc(c) == c.b * 256 + c.c

de(c) == c.d * 256 + c.e

hl(c) == c.h * 256 + c.l

set_af(c, value) ==
    [c EXCEPT !.a = value \div 256, !.f = set_from_u8(value % 256)]

set_bc(c, value) == [c EXCEPT !.b = value \div 256, !.c = value % 256]

set_de(c, value) == [c EXCEPT !.d = value \div 256, !.e = value % 256]

set_hl(c, value) == [c EXCEPT !.h = value \div 256, !.l = value % 256]

\* the pair getters and setters, chosen by the pair's name
GetPair(c, rr) ==
    CASE rr = "bc" -> bc(c) [] rr = "de" -> de(c) [] rr = "hl" -> hl(c)
      [] rr = "af" -> af(c) [] OTHER -> c.sp

SetPair(c, rr, value) ==
    CASE rr = "bc" -> set_bc(c, value) [] rr = "de" -> set_de(c, value)
      [] rr = "hl" -> set_hl(c, value) [] rr = "af" -> set_af(c, value)
      [] OTHER -> [c EXCEPT !.sp = value]

(***************************************************************************)
(* The interpreter works on an execution context x: the Cpu, the Memory it *)
(* borrows, the panic raised so far, the cycle count to return and the     *)
(* addresses written so far.                                               *)
(***************************************************************************)
Ctx(c, m) ==
    [cpu |-> c, mem |-> m, fault |-> "none", cyc |-> 0, wrote |-> {}]

Panic(x, kind) == IF x.fault = "none" THEN [x EXCEPT !.fault = kind] ELSE x

\* memory.read_byte(a): the value, and the context after the call
Rd(x, a) == Memory_read_byte(x.mem, a).val

RdChk(x, a) == Panic(x, Memory_read_byte(x.mem, a).fault)

\* memory.write_byte(a, v)
Wr(x, a, v) ==
    LET w == Memory_write_byte(x.mem, a, v) IN
    IF x.fault # "none" THEN x
    ELSE IF w.fault # "none" THEN [x EXCEPT !.fault = w.fault]
    ELSE [x EXCEPT !.mem = w.mem, !.wrote = @ \cup {a}]

Memory_read_word(m, address) ==
    LET low  == Memory_read_byte(m, address)
        high == Memory_read_byte(m, U16(address + 1))
    IN  [fault |-> IF low.fault # "none" THEN low.fault ELSE high.fault,
         val   |-> BitOr(high.val * 256, low.val)]

\* write_word storing the high byte first
Memory_write_word_big_endian(x, address, value) ==
    Wr(Wr(x, address, value \div 256), U16(address + 1), value % 256)

Memory_write_word(x, address, value) ==
    Wr(Wr(x, address, value % 256), U16(address + 1), value \div 256)

Cyc(x, n) == [x EXCEPT !.cyc = n]

SetFlags(x, z, n, h, c) ==
    [x EXCEPT !.cpu.f = [z |-> z, n |-> n, h |-> h, c |-> c]]

\* a fetched byte read as i8, widened to i16 and cast to u16
SignExtend(b) == IF b >= 128 THEN b + 65280 ELSE b

\* fetch_byte that reads the byte and leaves PC on it
fetch_byte_no_advance(x) ==
    [val |-> Rd(x, x.cpu.pc), x |-> RdChk(x, x.cpu.pc)]

fetch_byte(x) ==
    [val |-> Rd(x, x.cpu.pc),
     x   |-> [RdChk(x, x.cpu.pc) EXCEPT !.cpu.pc = U16(x.cpu.pc + 1)]]

fetch_word(x) ==
    LET w == Memory_read_word(x.mem, x.cpu.pc) IN
    [val |-> w.val,
     x   |-> [Panic(x, w.fault) EXCEPT !.cpu.pc = U16(x.cpu.pc + 2)]]

(***************************************************************************)
(* Instruction handlers (src/src/cpu/mod.rs).  The source has one handler  *)
(* per opcode; the per-register copies of a handler differ only in the     *)
(* register they name, which is the parameter here.                        *)
(***************************************************************************)
nop(x) == Cyc(x, 4)

halt(x) == Cyc([x EXCEPT !.cpu.halted = TRUE], 4)

ld_r_r(x, d, s) == Cyc([x EXCEPT !.cpu[d] = x.cpu[s]], 4)

ld_r_n(x, d) ==
    LET f == fetch_byte(x) IN Cyc([f.x EXCEPT !.cpu[d] = f.val], 8)

ld_r_hl(x, d) ==
    LET addr == hl(x.cpu) IN
    Cyc([RdChk(x, addr) EXCEPT !.cpu[d] = Rd(x, addr)], 8)

ld_hl_r(x, s) == Cyc(Wr(x, hl(x.cpu), x.cpu[s]), 8)

ld_hl_n(x) ==
    LET f == fetch_byte(x) IN Cyc(Wr(f.x, hl(f.x.cpu), f.val), 12)

ld_rr_nn(x, rr) ==
    LET f == fetch_word(x) IN
    Cyc([f.x EXCEPT !.cpu = SetPair(f.x.cpu, rr, f.val)], 12)

ld_a_rr(x, rr) ==
    LET addr == GetPair(x.cpu, rr) IN
    Cyc([RdChk(x, addr) EXCEPT !.cpu.a = Rd(x, addr)], 8)

ld_rr_a(x, rr) == Cyc(Wr(x, GetPair(x.cpu, rr), x.cpu.a), 8)

ld_a_nn(x) ==
    LET f == fetch_word(x) IN
    Cyc([RdChk(f.x, f.val) EXCEPT !.cpu.a = Rd(f.x, f.val)], 16)

ld_nn_a(x) ==
    LET f == fetch_word(x) IN Cyc(Wr(f.x, f.val, f.x.cpu.a), 16)

\* ldi_hl_a storing at the incremented HL
ldi_hl_a_pre_increment(x) ==
    LET addr == U16(hl(x.cpu) + 1)
        w    == Wr(x, addr, x.cpu.a)
    IN  Cyc([w EXCEPT !.cpu = set_hl(w.cpu, addr)], 8)

ldi_hl_a(x) ==
    LET addr == hl(x.cpu)
        w    == Wr(x, addr, x.cpu.a)
    IN  Cyc([w EXCEPT !.cpu = set_hl(w.cpu, U16(addr + 1))], 8)

ldi_a_hl(x) ==
    LET addr == hl(x.cpu)
        r    == [RdChk(x, addr) EXCEPT !.cpu.a = Rd(x, addr)]
    IN  Cyc([r EXCEPT !.cpu = set_hl(r.cpu, U16(addr + 1))], 8)

ldd_hl_a(x) ==
    LET addr == hl(x.cpu)
        w    == Wr(x, addr, x.cpu.a)
    IN  Cyc([w EXCEPT !.cpu = set_hl(w.cpu, U16(addr + 65535))], 8)

ldd_a_hl(x) ==
    LET addr == hl(x.cpu)
        r    == [RdChk(x, addr) EXCEPT !.cpu.a = Rd(x, addr)]
    IN  Cyc([r EXCEPT !.cpu = set_hl(r.cpu, U16(addr + 65535))], 8)

ld_nn_sp(x) ==
    LET f == fetch_word(x) IN Cyc(Memory_write_word(f.x, f.val, f.x.cpu.sp), 20)

ld_sp_hl(x) == Cyc([x EXCEPT !.cpu.sp = hl(x.cpu)], 8)

\* ld_hl_sp_n taking the carry from the 16-bit addition
ld_hl_sp_n_carry_from_word(x) ==
    LET f          == fetch_byte(x)
        sp         == f.x.cpu.sp
        result     == U16(sp + SignExtend(f.val))
        sp_low     == sp % 256
        offset_low == SignExtend(f.val) % 256
        g          == SetFlags(f.x, FALSE, FALSE,
                               (sp_low % 16) + (offset_low % 16) > 15,
                               sp + offset_low > 65535)
    IN  Cyc([g EXCEPT !.cpu = set_hl(g.cpu, result)], 12)

ld_hl_sp_n(x) ==
    LET f          == fetch_byte(x)
        sp         == f.x.cpu.sp
        result     == U16(sp + SignExtend(f.val))
        sp_low     == sp % 256
        offset_low == SignExtend(f.val) % 256
        g          == SetFlags(f.x, FALSE, FALSE,
                               (sp_low % 16) + (offset_low % 16) > 15,
                               sp_low + offset_low > 255)
    IN  Cyc([g EXCEPT !.cpu = set_hl(g.cpu, result)], 12)

\* XOR: the handlers are written out per operand in the source
xor_a(x) == Cyc(SetFlags([x EXCEPT !.cpu.a = 0], TRUE, FALSE, FALSE, FALSE), 4)

XorWith(x, value) ==
    LET a == BitXor(x.cpu.a, value) IN
    SetFlags([x EXCEPT !.cpu.a = a], a = 0, FALSE, FALSE, FALSE)

xor_r(x, r) == Cyc(XorWith(x, x.cpu[r]), 4)

xor_hl(x) ==
    LET addr == hl(x.cpu) IN Cyc(XorWith(RdChk(x, addr), Rd(x, addr)), 8)

xor_n(x) == LET f == fetch_byte(x) IN Cyc(XorWith(f.x, f.val), 8)

\* inc_r taking the half carry from the result
inc_r_half_from_result(x, r) ==
    LET v == x.cpu[r]
        n == U8(v + 1)
    IN  Cyc(SetFlags([x EXCEPT !.cpu[r] = n], n = 0, FALSE, n % 16 = 15, x.cpu.f.c), 4)

inc_r(x, r) ==
    LET v == x.cpu[r]
        n == U8(v + 1)
    IN  Cyc(SetFlags([x EXCEPT !.cpu[r] = n], n = 0, FALSE, v % 16 = 15, x.cpu.f.c), 4)

inc_hl(x) ==
    LET addr   == hl(x.cpu)
        value  == Rd(x, addr)
        result == U8(value + 1)
        w      == Wr(RdChk(x, addr), addr, result)
    IN  Cyc(SetFlags(w, result = 0, FALSE, value % 16 = 15, x.cpu.f.c), 12)

dec_r(x, r) ==
    LET v == x.cpu[r]
        n == U8(v + 255)
    IN  Cyc(SetFlags([x EXCEPT !.cpu[r] = n], n = 0, TRUE, v % 16 = 0, x.cpu.f.c), 4)

dec_hl(x) ==
    LET addr   == hl(x.cpu)
        value  == Rd(x, addr)
        result == U8(value + 255)
        w      == Wr(RdChk(x, addr), addr, result)
    IN  Cyc(SetFlags(w, result = 0, TRUE, value % 16 = 0, x.cpu.f.c), 12)

inc_rr(x, rr) ==
    Cyc([x EXCEPT !.cpu = SetPair(x.cpu, rr, U16(GetPair(x.cpu, rr) + 1))], 8)

dec_rr(x, rr) ==
    Cyc([x EXCEPT !.cpu = SetPair(x.cpu, rr, U16(GetPair(x.cpu, rr) + 65535))], 8)

jp_nn(x) == LET f == fetch_word(x) IN Cyc([f.x EXCEPT !.cpu.pc = f.val], 16)

jr_n(x) ==
    LET f == fetch_byte(x) IN
    Cyc([f.x EXCEPT !.cpu.pc = U16(f.x.cpu.pc + SignExtend(f.val))], 12)

\* the condition a conditional handler tests: f.z or f.c, and which way
Cond(c, cc) ==
    CASE cc = "z"  -> c.f.z
      [] cc = "nz" -> ~c.f.z
      [] cc = "c"  -> c.f.c
      [] OTHER     -> ~c.f.c

\* jr_cc adding the offset byte unsigned
jr_cc_unsigned_offset(x, cc) ==
    LET f == fetch_byte(x) IN
    IF Cond(f.x.cpu, cc)
    THEN Cyc([f.x EXCEPT !.cpu.pc = U16(f.x.cpu.pc + f.val)], 12)
    ELSE Cyc(f.x, 8)

jr_cc(x, cc) ==
    LET f == fetch_byte(x) IN
    IF Cond(f.x.cpu, cc)
    THEN Cyc([f.x EXCEPT !.cpu.pc = U16(f.x.cpu.pc + SignExtend(f.val))], 12)
    ELSE Cyc(f.x, 8)

jp_cc(x, cc) ==
    LET f == fetch_word(x) IN
    IF Cond(f.x.cpu, cc)
    THEN Cyc([f.x EXCEPT !.cpu.pc = f.val], 16)
    ELSE Cyc(f.x, 12)

add_a(x, value) ==
    LET a      == x.cpu.a
        result == U8(a + value)
    IN  Cyc(SetFlags([x EXCEPT !.cpu.a = result], result = 0, FALSE,
                     (a % 16) + (value % 16) > 15, a + value > 255), 4)

sub_a(x, value) ==
    LET a      == x.cpu.a
        result == U8(a + 256 - value)
    IN  Cyc(SetFlags([x EXCEPT !.cpu.a = result], result = 0, TRUE,
                     (a % 16) < (value % 16), a < value), 4)

and_a(x, value) ==
    LET a == BitAnd(x.cpu.a, value) IN
    Cyc(SetFlags([x EXCEPT !.cpu.a = a], a = 0, FALSE, TRUE, FALSE), 4)

or_a(x, value) ==
    LET a == BitOr(x.cpu.a, value) IN
    Cyc(SetFlags([x EXCEPT !.cpu.a = a], a = 0, FALSE, FALSE, FALSE), 4)

cp_a(x, value) ==
    LET a      == x.cpu.a
        result == U8(a + 256 - value)
    IN  Cyc(SetFlags(x, result = 0, TRUE, (a % 16) < (value % 16), a < value), 4)

\* adc_a with the half-carry computed without the carry-in
adc_a_half_without_carry(x, value) ==
    LET a      == x.cpu.a
        carry  == B2N(x.cpu.f.c)
        result == U8(a + value + carry)
    IN  Cyc(SetFlags([x EXCEPT !.cpu.a = result], result = 0, FALSE,
                     (a % 16) + (value % 16) > 15,
                     a + value + carry > 255), 4)

adc_a(x, value) ==
    LET a      == x.cpu.a
        carry  == B2N(x.cpu.f.c)
        result == U8(a + value + carry)
    IN  Cyc(SetFlags([x EXCEPT !.cpu.a = result], result = 0, FALSE,
                     (a % 16) + (value % 16) + carry > 15,
                     a + value + carry > 255), 4)

sbc_a(x, value) ==
    LET a      == x.cpu.a
        carry  == B2N(x.cpu.f.c)
        result == U8(a + 512 - value - carry)
    IN  Cyc(SetFlags([x EXCEPT !.cpu.a = result], result = 0, TRUE,
                     (a % 16) < (value % 16) + carry, a < value + carry), 4)

\* the eight-way ALU helper an opcode's handler calls
Alu(op, x, value) ==
    CASE op = "add" -> add_a(x, value)
      [] op = "sub" -> sub_a(x, value)
      [] op = "and" -> and_a(x, value)
      [] op = "or"  -> or_a(x, value)
      [] op = "cp"  -> cp_a(x, value)
      [] op = "adc" -> adc_a(x, value)
      [] OTHER      -> sbc_a(x, value)

alu_a_r(op, x, r) == Alu(op, x, x.cpu[r])

alu_a_hl(op, x) ==
    LET addr == hl(x.cpu) IN Cyc(Alu(op, RdChk(x, addr), Rd(x, addr)), 8)

alu_a_n(op, x) == LET f == fetch_byte(x) IN Cyc(Alu(op, f.x, f.val), 8)

\* PushWord storing the low byte first
PushWord_low_first(x, value) ==
    LET sp1 == U16(x.cpu.sp + 65535)
        w1  == Wr([x EXCEPT !.cpu.sp = sp1], sp1, value % 256)
        sp2 == U16(sp1 + 65535)
    IN  Wr([w1 EXCEPT !.cpu.sp = sp2], sp2, value \div 256)

\* push the 16-bit value: SP decrements before each write, high byte first
PushWord(x, value) ==
    LET sp1 == U16(x.cpu.sp + 65535)
        w1  == Wr([x EXCEPT !.cpu.sp = sp1], sp1, value \div 256)
        sp2 == U16(sp1 + 65535)
    IN  Wr([w1 EXCEPT !.cpu.sp = sp2], sp2, value % 256)

\* pop a 16-bit value: low byte at SP, high byte at SP + 1
PopWord(x) ==
    LET sp1  == U16(x.cpu.sp + 1)
        low  == Rd(x, x.cpu.sp)
        high == Rd(x, sp1)
    IN  [val |-> BitOr(high * 256, low),
         x   |-> [RdChk(RdChk(x, x.cpu.sp), sp1) EXCEPT !.cpu.sp = U16(sp1 + 1)]]

push_rr(x, rr) == Cyc(PushWord(x, GetPair(x.cpu, rr)), 16)

pop_rr(x, rr) ==
    LET p == PopWord(x) IN
    Cyc([p.x EXCEPT !.cpu = SetPair(p.x.cpu, rr, p.val)], 12)

\* call_nn pushing the address of its operand, not the address after it
call_nn_pushes_operand_address(x) ==
    LET f == fetch_word(x)
        w == PushWord(f.x, x.cpu.pc)
    IN  Cyc([w EXCEPT !.cpu.pc = f.val], 24)

call_nn(x) ==
    LET f == fetch_word(x)
        w == PushWord(f.x, f.x.cpu.pc)
    IN  Cyc([w EXCEPT !.cpu.pc = f.val], 24)

ret(x) == LET p == PopWord(x) IN Cyc([p.x EXCEPT !.cpu.pc = p.val], 16)

\* call_cc pushing before it tests the condition
call_cc_always_pushes(x, cc) ==
    LET f == fetch_word(x)
        w == PushWord(f.x, f.x.cpu.pc)
    IN  IF Cond(f.x.cpu, cc)
        THEN Cyc([w EXCEPT !.cpu.pc = f.val], 24)
        ELSE Cyc([w EXCEPT !.cpu.pc = f.x.cpu.pc], 12)

call_cc(x, cc) ==
    LET f == fetch_word(x)
        w == PushWord(f.x, f.x.cpu.pc)
    IN  IF Cond(f.x.cpu, cc)
        THEN Cyc([w EXCEPT !.cpu.pc = f.val], 24)
        ELSE Cyc(f.x, 12)

ret_cc(x, cc) ==
    LET p == PopWord(x) IN
    IF Cond(x.cpu, cc)
    THEN Cyc([p.x EXCEPT !.cpu.pc = p.val], 20)
    ELSE Cyc(x, 8)

reti(x) == LET p == PopWord(x) IN Cyc([p.x EXCEPT !.cpu.pc = p.val], 16)

\* rlca shifting the old carry in, as RLA does
rlca_through_carry(x) ==
    LET a     == x.cpu.a
        carry == a >= 128
    IN  Cyc(SetFlags([x EXCEPT !.cpu.a = BitOr(U8(a * 2), B2N(x.cpu.f.c))],
                     FALSE, FALSE, FALSE, carry), 4)

rlca(x) ==
    LET a     == x.cpu.a
        carry == a >= 128
    IN  Cyc(SetFlags([x EXCEPT !.cpu.a = BitOr(U8(a * 2), B2N(carry))],
                     FALSE, FALSE, FALSE, carry), 4)

rrca(x) ==
    LET a     == x.cpu.a
        carry == a % 2 = 1
    IN  Cyc(SetFlags([x EXCEPT !.cpu.a = BitOr(a \div 2, B2N(carry) * 128)],
                     FALSE, FALSE, FALSE, carry), 4)

rla(x) ==
    LET a         == x.cpu.a
        old_carry == B2N(x.cpu.f.c)
    IN  Cyc(SetFlags([x EXCEPT !.cpu.a = BitOr(U8(a * 2), old_carry)],
                     FALSE, FALSE, FALSE, a >= 128), 4)

rra(x) ==
    LET a         == x.cpu.a
        old_carry == B2N(x.cpu.f.c)
    IN  Cyc(SetFlags([x EXCEPT !.cpu.a = BitOr(a \div 2, old_carry * 128)],
                     FALSE, FALSE, FALSE, a % 2 = 1), 4)

\* daa taking no account of the half-carry flag
daa_ignores_half_carry(x) ==
    LET a0     == x.cpu.a
        f      == x.cpu.f
        lowFix == ~f.n /\ (a0 % 16) > 9
        highFix == f.c \/ (~f.n /\ a0 > 153)
        adjust == BitOr(IF lowFix THEN 6 ELSE 0, IF highFix THEN 96 ELSE 0)
        a      == IF f.n THEN U8(a0 + 256 - adjust) ELSE U8(a0 + adjust)
    IN  Cyc(SetFlags([x EXCEPT !.cpu.a = a], a = 0, f.n, FALSE, f.c \/ highFix), 4)

daa(x) ==
    LET a0     == x.cpu.a
        f      == x.cpu.f
        lowFix == f.h \/ (~f.n /\ (a0 % 16) > 9)
        highFix == f.c \/ (~f.n /\ a0 > 153)
        adjust == BitOr(IF lowFix THEN 6 ELSE 0, IF highFix THEN 96 ELSE 0)
        a      == IF f.n THEN U8(a0 + 256 - adjust) ELSE U8(a0 + adjust)
    IN  Cyc(SetFlags([x EXCEPT !.cpu.a = a], a = 0, f.n, FALSE, f.c \/ highFix), 4)

cpl(x) ==
    Cyc(SetFlags([x EXCEPT !.cpu.a = BitNot8(x.cpu.a)],
                 x.cpu.f.z, TRUE, TRUE, x.cpu.f.c), 4)

scf(x) == Cyc(SetFlags(x, x.cpu.f.z, FALSE, FALSE, TRUE), 4)

ccf(x) == Cyc(SetFlags(x, x.cpu.f.z, FALSE, FALSE, ~x.cpu.f.c), 4)

di(x) == Cyc([x EXCEPT !.cpu.interrupts_enabled = FALSE], 4)

ei(x) == Cyc([x EXCEPT !.cpu.interrupts_enabled = TRUE], 4)

\* rst pushing the address of the RST opcode itself
rst_pushes_own_address(x, addr) ==
    LET w == PushWord(x, U16(x.cpu.pc + 65535)) IN Cyc([w EXCEPT !.cpu.pc = addr], 16)

rst(x, addr) ==
    LET w == PushWord(x, x.cpu.pc) IN Cyc([w EXCEPT !.cpu.pc = addr], 16)

(***************************************************************************)
(* CB-prefixed handlers.  Each rotate/shift helper sets the flags and      *)
(* returns the result byte.                                                *)
(***************************************************************************)
CbOut(x, result, carry) ==
    [val |-> result, x |-> SetFlags(x, result = 0, FALSE, FALSE, carry)]

rlc(x, value) == CbOut(x, BitOr(U8(value * 2), B2N(value >= 128)), value >= 128)

rrc(x, value) ==
    CbOut(x, BitOr(value \div 2, B2N(value % 2 = 1) * 128), value % 2 = 1)

rl(x, value) == CbOut(x, BitOr(U8(value * 2), B2N(x.cpu.f.c)), value >= 128)

rr(x, value) ==
    CbOut(x, BitOr(value \div 2, B2N(x.cpu.f.c) * 128), value % 2 = 1)

sla(x, value) == CbOut(x, U8(value * 2), value >= 128)

sra(x, value) == CbOut(x, BitOr(value \div 2, BitAnd(value, 128)), value % 2 = 1)

swap(x, value) == CbOut(x, (value % 16) * 16 + (value \div 16), FALSE)

\* srl keeping bit 7, as SRA does
srl_keeps_sign(x, value) ==
    CbOut(x, BitOr(value \div 2, BitAnd(value, 128)), value % 2 = 1)

srl(x, value) == CbOut(x, value \div 2, value % 2 = 1)

CbHelper(op, x, value) ==
    CASE op = "rlc"  -> rlc(x, value)
      [] op = "rrc"  -> rrc(x, value)
      [] op = "rl"   -> rl(x, value)
      [] op = "rr"   -> rr(x, value)
      [] op = "sla"  -> sla(x, value)
      [] op = "sra"  -> sra(x, value)
      [] op = "swap" -> swap(x, value)
      [] OTHER       -> srl(x, value)

cb_r(op, x, r) ==
    LET o == CbHelper(op, x, x.cpu[r]) IN Cyc([o.x EXCEPT !.cpu[r] = o.val], 8)

cb_hl(op, x) ==
    LET addr == hl(x.cpu)
        o    == CbHelper(op, RdChk(x, addr), Rd(x, addr))
    IN  Cyc(Wr(o.x, addr, o.val), 16)

\* bits 0-2 of a CB opcode: 0..5 -> b, c, d, e, h, l; 7 -> a; 6 is (HL)
CbReg(reg) ==
    CASE reg = 0 -> "b" [] reg = 1 -> "c" [] reg = 2 -> "d" [] reg = 3 -> "e"
      [] reg = 4 -> "h" [] reg = 5 -> "l" [] OTHER -> "a"

bit(x, opcode) ==
    LET b       == (opcode \div 8) % 8
        reg     == opcode % 8
        addr    == hl(x.cpu)
        value   == IF reg = 6 THEN Rd(x, addr) ELSE x.cpu[CbReg(reg)]
        x1      == IF reg = 6 THEN RdChk(x, addr) ELSE x
        bit_set == BitAnd(value, Pow2(b)) # 0
    IN  Cyc(SetFlags(x1, ~bit_set, FALSE, TRUE, x.cpu.f.c), IF reg = 6 THEN 12 ELSE 8)

\* res indexing the bit with bits 0-2 of the opcode
res_bit_from_low_bits(x, opcode) ==
    LET b    == opcode % 8
        reg  == opcode % 8
        mask == BitNot8(Pow2(b))
        addr == hl(x.cpu)
    IN  IF reg = 6
        THEN Cyc(Wr(RdChk(x, addr), addr, BitAnd(Rd(x, addr), mask)), 16)
        ELSE Cyc([x EXCEPT !.cpu[CbReg(reg)] = BitAnd(@, mask)], 8)

res(x, opcode) ==
    LET b    == (opcode \div 8) % 8
        reg  == opcode % 8
        mask == BitNot8(Pow2(b))
        addr == hl(x.cpu)
    IN  IF reg = 6
        THEN Cyc(Wr(RdChk(x, addr), addr, BitAnd(Rd(x, addr), mask)), 16)
        ELSE Cyc([x EXCEPT !.cpu[CbReg(reg)] = BitAnd(@, mask)], 8)

set(x, opcode) ==
    LET b    == (opcode \div 8) % 8
        reg  == opcode % 8
        mask == Pow2(b)
        addr == hl(x.cpu)
    IN  IF reg = 6
        THEN Cyc(Wr(RdChk(x, addr), addr, BitOr(Rd(x, addr), mask)), 16)
        ELSE Cyc([x EXCEPT !.cpu[CbReg(reg)] = BitOr(@, mask)], 8)


(***************************************************************************)
(* Decode (src/src/cpu/instructions.rs).  OpcodeTable is the match of      *)
(* execute_opcode, entry opcode + 1: the handler's family and the          *)
(* registers its name carries; "panic" marks a byte with no arm, which     *)
(* reaches the final panic!.  CbOpcodeTable is the arms 0x00-0x3F of       *)
(* execute_cb_opcode.                                                      *)
(***************************************************************************)
OpcodeTable ==
  << <<"nop", "", "">>, <<"ld_rr_nn", "bc", "">>, <<"ld_rr_a", "bc", "">>, <<"inc_rr", "bc", "">>,
     <<"inc_r", "b", "">>, <<"dec_r", "b", "">>, <<"ld_r_n", "b", "">>, <<"rlca", "", "">>,
     <<"ld_nn_sp", "", "">>, <<"panic", "", "">>, <<"ld_a_rr", "bc", "">>, <<"dec_rr", "bc", "">>,
     <<"inc_r", "c", "">>, <<"dec_r", "c", "">>, <<"ld_r_n", "c", "">>, <<"rrca", "", "">>,
     <<"panic", "", "">>, <<"ld_rr_nn", "de", "">>, <<"ld_rr_a", "de", "">>, <<"inc_rr", "de", "">>,
     <<"inc_r", "d", "">>, <<"dec_r", "d", "">>, <<"ld_r_n", "d", "">>, <<"rla", "", "">>,
     <<"jr_n", "", "">>, <<"panic", "", "">>, <<"ld_a_rr", "de", "">>, <<"dec_rr", "de", "">>,
     <<"inc_r", "e", "">>, <<"dec_r", "e", "">>, <<"ld_r_n", "e", "">>, <<"rra", "", "">>,
     <<"jr_cc", "nz", "">>, <<"ld_rr_nn", "hl", "">>, <<"ldi_hl_a", "", "">>, <<"inc_rr", "hl", "">>,
     <<"inc_r", "h", "">>, <<"dec_r", "h", "">>, <<"ld_r_n", "h", "">>, <<"daa", "", "">>,
     <<"jr_cc", "z", "">>, <<"panic", "", "">>, <<"ldi_a_hl", "", "">>, <<"dec_rr", "hl", "">>,
     <<"inc_r", "l", "">>, <<"dec_r", "l", "">>, <<"ld_r_n", "l", "">>, <<"cpl", "", "">>,
     <<"jr_cc", "nc", "">>, <<"ld_sp_nn", "", "">>, <<"ldd_hl_a", "", "">>, <<"inc_sp", "", "">>,
     <<"inc_hl", "", "">>, <<"dec_hl", "", "">>, <<"ld_hl_n", "", "">>, <<"scf", "", "">>,
     <<"jr_cc", "c", "">>, <<"panic", "", "">>, <<"ldd_a_hl", "", "">>, <<"dec_sp", "", "">>,
     <<"inc_r", "a", "">>, <<"dec_r", "a", "">>, <<"ld_r_n", "a", "">>, <<"ccf", "", "">>,
     <<"ld_r_r", "b", "b">>, <<"ld_r_r", "b", "c">>, <<"ld_r_r", "b", "d">>, <<"ld_r_r", "b", "e">>,
     <<"ld_r_r", "b", "h">>, <<"ld_r_r", "b", "l">>, <<"ld_r_hl", "b", "">>, <<"ld_r_r", "b", "a">>,
     <<"ld_r_r", "c", "b">>, <<"ld_r_r", "c", "c">>, <<"ld_r_r", "c", "d">>, <<"ld_r_r", "c", "e">>,
     <<"ld_r_r", "c", "h">>, <<"ld_r_r", "c", "l">>, <<"ld_r_hl", "c", "">>, <<"ld_r_r", "c", "a">>,
     <<"panic", "", "">>, <<"panic", "", "">>, <<"panic", "", "">>, <<"panic", "", "">>,
     <<"panic", "", "">>, <<"panic", "", "">>, <<"ld_r_hl", "d", "">>, <<"panic", "", "">>,
     <<"panic", "", "">>, <<"panic", "", "">>, <<"panic", "", "">>, <<"panic", "", "">>,
     <<"panic", "", "">>, <<"panic", "", "">>, <<"ld_r_hl", "e", "">>, <<"panic", "", "">>,
     <<"panic", "", "">>, <<"panic", "", "">>, <<"panic", "", "">>, <<"panic", "", "">>,
     <<"panic", "", "">>, <<"panic", "", "">>, <<"ld_r_hl", "h", "">>, <<"panic", "", "">>,
     <<"panic", "", "">>, <<"panic", "", "">>, <<"panic", "", "">>, <<"panic", "", "">>,
     <<"panic", "", "">>, <<"panic", "", "">>, <<"ld_r_hl", "l", "">>, <<"panic", "", "">>,
     <<"ld_hl_r", "b", "">>, <<"ld_hl_r", "c", "">>, <<"ld_hl_r", "d", "">>, <<"ld_hl_r", "e", "">>,
     <<"ld_hl_r", "h", "">>, <<"ld_hl_r", "l", "">>, <<"halt", "", "">>, <<"ld_hl_r", "a", "">>,
     <<"ld_r_r", "a", "b">>, <<"ld_r_r", "a", "c">>, <<"ld_r_r", "a", "d">>, <<"ld_r_r", "a", "e">>,
     <<"ld_r_r", "a", "h">>, <<"ld_r_r", "a", "l">>, <<"ld_r_hl", "a", "">>, <<"ld_r_r", "a", "a">>,
     <<"add_a_r", "b", "">>, <<"add_a_r", "c", "">>, <<"add_a_r", "d", "">>, <<"add_a_r", "e", "">>,
     <<"add_a_r", "h", "">>, <<"add_a_r", "l", "">>, <<"add_a_hl", "", "">>, <<"add_a_r", "a", "">>,
     <<"adc_a_r", "b", "">>, <<"adc_a_r", "c", "">>, <<"adc_a_r", "d", "">>, <<"adc_a_r", "e", "">>,
     <<"adc_a_r", "h", "">>, <<"adc_a_r", "l", "">>, <<"adc_a_hl", "", "">>, <<"adc_a_r", "a", "">>,
     <<"sub_a_r", "b", "">>, <<"sub_a_r", "c", "">>, <<"sub_a_r", "d", "">>, <<"sub_a_r", "e", "">>,
     <<"sub_a_r", "h", "">>, <<"sub_a_r", "l", "">>, <<"sub_a_hl", "", "">>, <<"sub_a_r", "a", "">>,
     <<"sbc_a_r", "b", "">>, <<"sbc_a_r", "c", "">>, <<"sbc_a_r", "d", "">>, <<"sbc_a_r", "e", "">>,
     <<"sbc_a_r", "h", "">>, <<"sbc_a_r", "l", "">>, <<"sbc_a_hl", "", "">>, <<"sbc_a_r", "a", "">>,
     <<"and_a_r", "b", "">>, <<"and_a_r", "c", "">>, <<"and_a_r", "d", "">>, <<"and_a_r", "e", "">>,
     <<"and_a_r", "h", "">>, <<"and_a_r", "l", "">>, <<"and_a_hl", "", "">>, <<"and_a_r", "a", "">>,
     <<"xor_r", "b", "">>, <<"xor_r", "c", "">>, <<"xor_r", "d", "">>, <<"xor_r", "e", "">>,
     <<"xor_r", "h", "">>, <<"xor_r", "l", "">>, <<"xor_hl", "", "">>, <<"xor_a", "", "">>,
     <<"or_a_r", "b", "">>, <<"or_a_r", "c", "">>, <<"or_a_r", "d", "">>, <<"or_a_r", "e", "">>,
     <<"or_a_r", "h", "">>, <<"or_a_r", "l", "">>, <<"or_a_hl", "", "">>, <<"or_a_r", "a", "">>,
     <<"cp_a_r", "b", "">>, <<"cp_a_r", "c", "">>, <<"cp_a_r", "d", "">>, <<"cp_a_r", "e", "">>,
     <<"cp_a_r", "h", "">>, <<"cp_a_r", "l", "">>, <<"cp_a_hl", "", "">>, <<"cp_a_r", "a", "">>,
     <<"ret_cc", "nz", "">>, <<"pop_rr", "bc", "">>, <<"jp_cc", "nz", "">>, <<"jp_nn", "", "">>,
     <<"call_cc", "nz", "">>, <<"push_rr", "bc", "">>, <<"add_a_n", "", "">>, <<"rst", 0, "">>,
     <<"ret_cc", "z", "">>, <<"ret", "", "">>, <<"jp_cc", "z", "">>, <<"cb_prefix", "", "">>,
     <<"call_cc", "z", "">>, <<"call_nn", "", "">>, <<"adc_a_n", "", "">>, <<"rst", 8, "">>,
     <<"ret_cc", "nc", "">>, <<"pop_rr", "de", "">>, <<"jp_cc", "nc", "">>, <<"panic", "", "">>,
     <<"call_cc", "nc", "">>, <<"push_rr", "de", "">>, <<"sub_a_n", "", "">>, <<"rst", 16, "">>,
     <<"ret_cc", "c", "">>, <<"reti", "", "">>, <<"jp_cc", "c", "">>, <<"panic", "", "">>,
     <<"call_cc", "c", "">>, <<"panic", "", "">>, <<"sbc_a_n", "", "">>, <<"rst", 24, "">>,
     <<"panic", "", "">>, <<"pop_rr", "hl", "">>, <<"panic", "", "">>, <<"panic", "", "">>,
     <<"panic", "", "">>, <<"push_rr", "hl", "">>, <<"and_a_n", "", "">>, <<"rst", 32, "">>,
     <<"panic", "", "">>, <<"panic", "", "">>, <<"ld_nn_a", "", "">>, <<"panic", "", "">>,
     <<"panic", "", "">>, <<"panic", "", "">>, <<"xor_n", "", "">>, <<"rst", 40, "">>,
     <<"panic", "", "">>, <<"pop_rr", "af", "">>, <<"panic", "", "">>, <<"di", "", "">>,
     <<"panic", "", "">>, <<"push_rr", "af", "">>, <<"or_a_n", "", "">>, <<"rst", 48, "">>,
     <<"ld_hl_sp_n", "", "">>, <<"ld_sp_hl", "", "">>, <<"ld_a_nn", "", "">>, <<"ei", "", "">>,
     <<"panic", "", "">>, <<"panic", "", "">>, <<"cp_a_n", "", "">>, <<"rst", 56, "">> >>

CbOpcodeTable ==
  << <<"cb_r", "rlc", "b">>, <<"cb_r", "rlc", "c">>, <<"cb_r", "rlc", "d">>, <<"cb_r", "rlc", "e">>,
     <<"cb_r", "rlc", "h">>, <<"cb_r", "rlc", "l">>, <<"cb_hl", "rlc", "">>, <<"cb_r", "rlc", "a">>,
     <<"cb_r", "rrc", "b">>, <<"cb_r", "rrc", "c">>, <<"cb_r", "rrc", "d">>, <<"cb_r", "rrc", "e">>,
     <<"cb_r", "rrc", "h">>, <<"cb_r", "rrc", "l">>, <<"cb_hl", "rrc", "">>, <<"cb_r", "rrc", "a">>,
     <<"cb_r", "rl", "b">>, <<"cb_r", "rl", "c">>, <<"cb_r", "rl", "d">>, <<"cb_r", "rl", "e">>,
     <<"cb_r", "rl", "h">>, <<"cb_r", "rl", "l">>, <<"cb_hl", "rl", "">>, <<"cb_r", "rl", "a">>,
     <<"cb_r", "rr", "b">>, <<"cb_r", "rr", "c">>, <<"cb_r", "rr", "d">>, <<"cb_r", "rr", "e">>,
     <<"cb_r", "rr", "h">>, <<"cb_r", "rr", "l">>, <<"cb_hl", "rr", "">>, <<"cb_r", "rr", "a">>,
     <<"cb_r", "sla", "b">>, <<"cb_r", "sla", "c">>, <<"cb_r", "sla", "d">>, <<"cb_r", "sla", "e">>,
     <<"cb_r", "sla", "h">>, <<"cb_r", "sla", "l">>, <<"cb_hl", "sla", "">>, <<"cb_r", "sla", "a">>,
     <<"cb_r", "sra", "b">>, <<"cb_r", "sra", "c">>, <<"cb_r", "sra", "d">>, <<"cb_r", "sra", "e">>,
     <<"cb_r", "sra", "h">>, <<"cb_r", "sra", "l">>, <<"cb_hl", "sra", "">>, <<"cb_r", "sra", "a">>,
     <<"cb_r", "swap", "b">>, <<"cb_r", "swap", "c">>, <<"cb_r", "swap", "d">>, <<"cb_r", "swap", "e">>,
     <<"cb_r", "swap", "h">>, <<"cb_r", "swap", "l">>, <<"cb_hl", "swap", "">>, <<"cb_r", "swap", "a">>,
     <<"cb_r", "srl", "b">>, <<"cb_r", "srl", "c">>, <<"cb_r", "srl", "d">>, <<"cb_r", "srl", "e">>,
     <<"cb_r", "srl", "h">>, <<"cb_r", "srl", "l">>, <<"cb_hl", "srl", "">>, <<"cb_r", "srl", "a">> >>

execute_cb_opcode(x, opcode) ==
    IF opcode >= 192 THEN set(x, opcode)            \* 0xC0..=0xFF
    ELSE IF opcode >= 128 THEN res(x, opcode)       \* 0x80..=0xBF
    ELSE IF opcode >= 64 THEN bit(x, opcode)        \* 0x40..=0x7F
    ELSE LET e == CbOpcodeTable[opcode + 1] IN
         IF e[1] = "cb_hl" THEN cb_hl(e[2], x) ELSE cb_r(e[2], x, e[3])

AluFamilies == {"add", "sub", "and", "or", "cp", "adc", "sbc"}

\* "add_a_r" -> "add": the ALU helper a family name carries
AluOf(h) ==
    CHOOSE op \in AluFamilies :
        h \in {op \o "_a_r", op \o "_a_hl", op \o "_a_n"}

execute_opcode(x, opcode) ==
    LET e == OpcodeTable[opcode + 1]
        h == e[1]
        p == e[2]
        q == e[3]
    IN  CASE h = "nop"        -> nop(x)
          [] h = "halt"       -> halt(x)
          [] h = "ld_r_r"     -> ld_r_r(x, p, q)
          [] h = "ld_r_n"     -> ld_r_n(x, p)
          [] h = "ld_r_hl"    -> ld_r_hl(x, p)
          [] h = "ld_hl_r"    -> ld_hl_r(x, p)
          [] h = "ld_hl_n"    -> ld_hl_n(x)
          [] h = "ld_rr_nn"   -> ld_rr_nn(x, p)
          [] h = "ld_sp_nn"   -> ld_rr_nn(x, "sp")
          [] h = "ld_a_rr"    -> ld_a_rr(x, p)
          [] h = "ld_rr_a"    -> ld_rr_a(x, p)
          [] h = "ld_a_nn"    -> ld_a_nn(x)
          [] h = "ld_nn_a"    -> ld_nn_a(x)
          [] h = "ldi_hl_a"   -> ldi_hl_a(x)
          [] h = "ldi_a_hl"   -> ldi_a_hl(x)
          [] h = "ldd_hl_a"   -> ldd_hl_a(x)
          [] h = "ldd_a_hl"   -> ldd_a_hl(x)
          [] h = "ld_nn_sp"   -> ld_nn_sp(x)
          [] h = "ld_sp_hl"   -> ld_sp_hl(x)
          [] h = "ld_hl_sp_n" -> ld_hl_sp_n(x)
          [] h = "rlca"       -> rlca(x)
          [] h = "rrca"       -> rrca(x)
          [] h = "rla"        -> rla(x)
          [] h = "rra"        -> rra(x)
          [] h = "daa"        -> daa(x)
          [] h = "cpl"        -> cpl(x)
          [] h = "scf"        -> scf(x)
          [] h = "ccf"        -> ccf(x)
          [] h = "di"         -> di(x)
          [] h = "ei"         -> ei(x)
          [] h = "xor_a"      -> xor_a(x)
          [] h = "xor_r"      -> xor_r(x, p)
          [] h = "xor_hl"     -> xor_hl(x)
          [] h = "xor_n"      -> xor_n(x)
          [] h = "inc_r"      -> inc_r(x, p)
          [] h = "inc_hl"     -> inc_hl(x)
          [] h = "dec_r"      -> dec_r(x, p)
          [] h = "dec_hl"     -> dec_hl(x)
          [] h = "inc_rr"     -> inc_rr(x, p)
          [] h = "inc_sp"     -> inc_rr(x, "sp")
          [] h = "dec_rr"     -> dec_rr(x, p)
          [] h = "dec_sp"     -> dec_rr(x, "sp")
          [] h = "jp_nn"      -> jp_nn(x)
          [] h = "jr_n"       -> jr_n(x)
          [] h = "jr_cc"      -> jr_cc(x, p)
          [] h = "jp_cc"      -> jp_cc(x, p)
          [] h \in {"add_a_r", "sub_a_r", "and_a_r", "or_a_r", "cp_a_r",
                    "adc_a_r", "sbc_a_r"}   -> alu_a_r(AluOf(h), x, p)
          [] h \in {"add_a_hl", "sub_a_hl", "and_a_hl", "or_a_hl", "cp_a_hl",
                    "adc_a_hl", "sbc_a_hl"} -> alu_a_hl(AluOf(h), x)
          [] h \in {"add_a_n", "sub_a_n", "and_a_n", "or_a_n", "cp_a_n",
                    "adc_a_n", "sbc_a_n"}   -> alu_a_n(AluOf(h), x)
          [] h = "rst"        -> rst(x, p)
          [] h = "push_rr"    -> push_rr(x, p)
          [] h = "pop_rr"     -> pop_rr(x, p)
          [] h = "call_nn"    -> call_nn(x)
          [] h = "call_cc"    -> call_cc(x, p)
          [] h = "ret"        -> ret(x)
          [] h = "ret_cc"     -> ret_cc(x, p)
          [] h = "reti"       -> reti(x)
          [] h = "cb_prefix"  -> LET f == fetch_byte(x) IN
                                 execute_cb_opcode(f.x, f.val)
          [] OTHER            -> Panic(x, "opcode")

\* Cpu::execute: the context after the instruction; on a panic the fault
\* alone is kept
\* the decode and dispatch of the byte execute fetched
Dispatch(f) == execute_opcode(f.x, f.val)

\* a panic ends the program: the machine is left as the call found it
OrPanic(x0, r) ==
    IF r.fault = "none" THEN r ELSE [x0 EXCEPT !.fault = r.fault]

execute(c, m) == OrPanic(Ctx(c, m), Dispatch(fetch_byte(Ctx(c, m))))

(***************************************************************************)
(* The state machine.  last records the most recent call: its kind, its    *)
(* arguments, what it returned and the Cpu and Timer it started from.      *)
(* hist counts: n, the cycles passed to tick since the timer was created   *)
(* or 0xFF04 was last written; fresh, no register was written after the    *)
(* first tick; ops and steps, the bus calls and instructions so far; cpu0, *)
(* the Cpu the run started from; calls, the return addresses (the address  *)
(* after the operand) of the CALL nn not yet matched by a RET, the most    *)
(* recent first.                                                           *)
(* last.wrote is the set of addresses the instruction wrote, last.ifBefore *)
(* the byte at 0xFF0F when execute returned, before the tick.              *)
(***************************************************************************)
NoLast ==
    [op |-> "init", addr |-> 0, val |-> 0, ret |-> 0, cycles |-> 0,
     overflow |-> FALSE, ifBefore |-> 0, wrote |-> {}, pre |-> Cpu_new,
     preTimer |-> Timer_new]

NoHist ==
    [n |-> 0, fresh |-> TRUE, ops |-> 0, steps |-> 0, cpu0 |-> Cpu_new,
     calls |-> <<>>, file |-> <<>>]

\* GameBoy::new
Init ==
    /\ cpu = Cpu_new
    /\ memory = Memory_new
    /\ fault = "none"
    /\ last = NoLast
    /\ hist = NoHist

\* a write that reached a timer register: 0xFF04 restarts the cycle count
HistAfterWrite(h, address) ==
    IF address >= DIV /\ address <= TAC
    THEN [h EXCEPT !.n = IF address = DIV THEN 0 ELSE @,
                   !.fresh = @ /\ h.n = 0]
    ELSE h

\* the open calls after the instruction whose opcode was at pc: CALL nn
\* (0xCD) opens one, RET (0xC9) closes the most recent
CallsAfter(calls, opcode, pc) ==
    CASE opcode = 205 -> <<U16(pc + 3)>> \o calls
      [] opcode = 201 /\ calls # <<>> -> Tail(calls)
      [] OTHER -> calls

\* the instruction's writes to the timer registers, seen by the counters,
\* and the calls it opened or closed
HistAfterExecute(h, x) ==
    [h EXCEPT !.n = IF DIV \in x.wrote THEN 0 ELSE @,
              !.fresh = @ /\ (h.n = 0 \/ x.wrote \cap {DIV, TIMA, TMA, TAC} = {}),
              !.calls = CallsAfter(@, Memory_read_byte(memory, cpu.pc).val,
                                   cpu.pc)]

\* Timer::tick(cycles), called on the bus's timer
TimerTick(cycles, cap) ==
    /\ fault = "none"
    /\ hist.n + cycles <= cap
    /\ LET t == tick(memory.timer, cycles) IN
       /\ memory' = [memory EXCEPT !.timer = t.timer]
       /\ last' = [NoLast EXCEPT !.op = "tick", !.cycles = cycles,
                                 !.overflow = t.overflow,
                                 !.pre = cpu, !.preTimer = memory.timer]
    /\ hist' = [hist EXCEPT !.n = @ + cycles]
    /\ UNCHANGED <<cpu, fault>>

\* Timer::write_register(address, value)
TimerWrite(address, value) ==
    /\ fault = "none"
    /\ LET w == write_register(memory.timer, address, value) IN
       /\ fault' = w.fault
       /\ memory' = [memory EXCEPT !.timer = w.timer]
       /\ hist' = IF w.fault = "none" THEN HistAfterWrite(hist, address) ELSE hist
    /\ last' = [NoLast EXCEPT !.op = "write", !.addr = address, !.val = value,
                              !.pre = cpu, !.preTimer = memory.timer]
    /\ UNCHANGED cpu

\* Timer::read_register(address)
TimerRead(address) ==
    /\ fault = "none"
    /\ LET r == read_register(memory.timer, address) IN
       /\ fault' = r.fault
       /\ last' = [NoLast EXCEPT !.op = "read", !.addr = address, !.ret = r.val,
                                 !.pre = cpu, !.preTimer = memory.timer]
    /\ UNCHANGED <<cpu, memory, hist>>

\* Memory::write_byte(address, value)
BusWrite(address, value, cap) ==
    /\ fault = "none"
    /\ hist.ops < cap
    /\ LET w == Memory_write_byte(memory, address, value) IN
       /\ fault' = w.fault
       /\ memory' = IF w.fault = "none" THEN w.mem ELSE memory
       /\ hist' = IF w.fault = "none"
                  THEN [HistAfterWrite(hist, address) EXCEPT !.ops = @ + 1]
                  ELSE hist
    /\ last' = [NoLast EXCEPT !.op = "write", !.addr = address, !.val = value,
                              !.pre = cpu, !.preTimer = memory.timer]
    /\ UNCHANGED cpu

\* Memory::read_byte(address)
BusRead(address, cap) ==
    /\ fault = "none"
    /\ hist.ops < cap
    /\ LET r == Memory_read_byte(memory, address) IN
       /\ fault' = r.fault
       /\ last' = [NoLast EXCEPT !.op = "read", !.addr = address, !.ret = r.val,
                                 !.pre = cpu, !.preTimer = memory.timer]
    /\ hist' = [hist EXCEPT !.ops = @ + 1]
    /\ UNCHANGED <<cpu, memory>>

\* GameBoy::load_rom: Cartridge::load, then Memory::load_cartridge on success;
\* on Err the machine is left as it was.  last.ret is 1 for Ok, 0 for Err.
LoadRom(rom) ==
    /\ fault = "none"
    /\ memory.cartridge = <<>>
    /\ hist.ops = 0
    /\ memory' = IF Cartridge_load(rom) = <<>> THEN memory
                 ELSE load_cartridge(memory, Cartridge_load(rom)[1])
    /\ last' = [NoLast EXCEPT !.op = "load",
                              !.ret = IF Cartridge_load(rom) = <<>> THEN 0 ELSE 1,
                              !.pre = cpu, !.preTimer = memory.timer]
    /\ hist' = [hist EXCEPT !.file = <<rom>>]
    /\ UNCHANGED <<cpu, fault>>

\* the end of step with the timer ticked twice
StepAfterExecute_ticks_twice(x) ==
    LET t  == tick(tick(x.mem.timer, x.cyc).timer, x.cyc)
        m1 == [x.mem EXCEPT !.timer = t.timer]
    IN  [overflow |-> t.overflow,
         mem      |-> IF t.overflow
                      THEN Memory_write_byte(
                               m1, IF_ADDR,
                               BitOr(Memory_read_byte(m1, IF_ADDR).val, 4)).mem
                      ELSE m1]

\* the end of step with the request written as 0x04, not OR-ed into IF
StepAfterExecute_overwrites(x) ==
    LET t  == tick(x.mem.timer, x.cyc)
        m1 == [x.mem EXCEPT !.timer = t.timer]
    IN  [overflow |-> t.overflow,
         mem      |-> IF t.overflow
                      THEN Memory_write_byte(m1, IF_ADDR, 4).mem
                      ELSE m1]

\* the end of step clearing the timer request when IE and the master enable
\* allow it to be served
StepAfterExecute_consumes_request(x) ==
    LET t   == tick(x.mem.timer, x.cyc)
        m1  == [x.mem EXCEPT !.timer = t.timer]
        req == BitOr(Memory_read_byte(m1, IF_ADDR).val, 4)
        ie  == Memory_read_byte(m1, 65535).val
    IN  [overflow |-> t.overflow,
         mem      |-> IF t.overflow
                      THEN Memory_write_byte(
                               m1, IF_ADDR,
                               IF x.cpu.interrupts_enabled /\ BitAnd(ie, 4) # 0
                               THEN BitAnd(req, 251) ELSE req).mem
                      ELSE m1]

\* GameBoy::step after cpu.execute returned: the tick and the IF update
StepAfterExecute(x) ==
    LET t  == tick(x.mem.timer, x.cyc)
        m1 == [x.mem EXCEPT !.timer = t.timer]
    IN  [overflow |-> t.overflow,
         mem      |-> IF t.overflow
                      THEN Memory_write_byte(
                               m1, IF_ADDR,
                               BitOr(Memory_read_byte(m1, IF_ADDR).val, 4)).mem
                      ELSE m1]

\* the state after Cpu::execute returned x
ExecuteDone(x) ==
    /\ fault' = x.fault
    /\ cpu' = x.cpu
    /\ memory' = x.mem
    /\ last' = [NoLast EXCEPT !.op = "execute",
                              !.val = Memory_read_byte(memory, cpu.pc).val,
                              !.cycles = x.cyc, !.wrote = x.wrote,
                              !.pre = cpu, !.preTimer = memory.timer]
    /\ hist' = IF x.fault # "none" THEN hist
               ELSE [HistAfterExecute(hist, x) EXCEPT !.steps = @ + 1]

\* Cpu::execute(&mut memory), as the interpreter's tests call it
CpuExecute(cap) ==
    /\ fault = "none"
    /\ hist.steps < cap
    /\ ExecuteDone(execute(cpu, memory))

\* the state after GameBoy::step ran execute (x) and the timer (s)
StepDone(x, s) ==
    /\ fault' = x.fault
    /\ cpu' = x.cpu
    /\ memory' = IF x.fault = "none" THEN s.mem ELSE memory
    /\ last' = [NoLast EXCEPT !.op = "step",
                              !.val = Memory_read_byte(memory, cpu.pc).val,
                              !.cycles = x.cyc, !.wrote = x.wrote,
                              !.overflow = (x.fault = "none") /\ s.overflow,
                              !.ifBefore = Memory_read_byte(x.mem, IF_ADDR).val,
                              !.pre = cpu, !.preTimer = memory.timer]
    /\ hist' = IF x.fault # "none" THEN hist
               ELSE [HistAfterExecute(hist, x)
                        EXCEPT !.n = @ + x.cyc, !.steps = @ + 1]

StepFrom(x) == StepDone(x, StepAfterExecute(x))

\* GameBoy::step
Step(cap) ==
    /\ fault = "none"
    /\ hist.steps < cap
    /\ StepFrom(execute(cpu, memory))

(***************************************************************************)
(* Bounds and input sets.                                                  *)
(***************************************************************************)
MaxDivCycles == 65800

MaxTimerCycles == 40

MaxBusOps == 2

MaxPokes == 3

MaxSteps == 3

MaxExecSteps == 1

DivTickCycles == {64, 128}

DivTacValues == {0, 5, 7}

TimerTickCycles == {1, 4, 16}

TimerRegs == {DIV, TIMA, TMA, TAC}

TimerValues == {0, 5, 255}

\* one address at each edge of every region of the bus
BusAddrs ==
    {0, 512, 16384, 32767, 32768, 40960, 49151, 49152, 57344, 65023, 65283,
     DIV, TIMA, TMA, TAC, 65288, IF_ADDR, 65535}

BusValues == {10, 66}

\* a 32 KiB ROM-only image, a 64 KiB MBC1+RAM image with 8 KiB of RAM, and
\* a 336-byte file whose header is valid
RomImages ==
    {RomImage(32768, 0, 0, 0), RomImage(65536, 2, 1, 2), RomImage(336, 0, 0, 0)}

\* LD (nn),A with nn = 0xFF0F; RST 38; DEC DE; RRCA
PokeAddrs == {256, 257, 258, IF_ADDR}

PokeValues == {234, 15, 255, 27}

ExecPCs == {256, 65534}

ExecImm1 == {0, 5, 15, 128, 255}

ExecImm2 == {0, 192, 255}

(***************************************************************************)
(* Spec: the machine stepped by GameBoy::step, its memory written by the   *)
(* host between steps.                                                     *)
(***************************************************************************)
Next ==
    \/ Step(MaxSteps)
    \/ \E a \in PokeAddrs, v \in PokeValues : BusWrite(a, v, MaxPokes)

Spec == Init /\ [][Next]_vars

(***************************************************************************)
(* SpecDiv: the timer alone, ticked far enough for the divider to wrap.    *)
(***************************************************************************)
NextDiv ==
    \/ \E c \in DivTickCycles : TimerTick(c, MaxDivCycles)
    \/ \E v \in DivTacValues : TimerWrite(TAC, v)
    \/ \E v \in TimerValues : TimerWrite(DIV, v)
    \/ TimerRead(DIV)

SpecDiv == Init /\ [][NextDiv]_vars

(***************************************************************************)
(* SpecTimer: the timer's three operations on all four registers.          *)
(***************************************************************************)
NextTimer ==
    \/ \E c \in TimerTickCycles : TimerTick(c, MaxTimerCycles)
    \/ \E a \in TimerRegs, v \in TimerValues : TimerWrite(a, v)
    \/ \E a \in TimerRegs : TimerRead(a)

SpecTimer == Init /\ [][NextTimer]_vars

(***************************************************************************)
(* SpecBus: reads and writes on the bus, with or without a cartridge.      *)
(***************************************************************************)
NextBus ==
    \/ \E rom \in RomImages : LoadRom(rom)
    \/ \E a \in BusAddrs, v \in BusValues : BusWrite(a, v, MaxBusOps)
    \/ \E a \in BusAddrs : BusRead(a, MaxBusOps)

SpecBus == Init /\ [][NextBus]_vars

(***************************************************************************)
(* SpecExec: Cpu::execute applied to one instruction.  The initial states  *)
(* hold every opcode byte at PC, followed by immediates (for the CB prefix *)
(* every second byte), under each value of the Z and C flags.              *)
(***************************************************************************)
InitExec ==
    \E pc \in ExecPCs, op \in Byte, i2 \in ExecImm2, z \in BOOLEAN, c \in BOOLEAN :
    \E i1 \in (IF op = 203 THEN Byte ELSE ExecImm1) :
        /\ cpu = [Cpu_new EXCEPT !.pc = pc, !.f.z = z, !.f.c = c]
        /\ memory = [Memory_new EXCEPT !.data =
                        VecSet(VecSet(VecSet(ZeroVec, pc, op),
                                      U16(pc + 1), i1), U16(pc + 2), i2)]
        /\ fault = "none"
        /\ last = NoLast
        /\ hist = [NoHist EXCEPT !.cpu0 = cpu]

NextExec == CpuExecute(MaxExecSteps)

SpecExec == InitExec /\ [][NextExec]_vars

(***************************************************************************)
(* SpecAlu: one 8-bit ALU instruction on A, in its register, (HL) and      *)
(* immediate forms.  The operand v is in B, C, D, E, H, L, at (HL) and in  *)
(* the immediate byte; the instruction is at 0xC000.                       *)
(***************************************************************************)
AluEdge == {0, 1, 15, 16, 127, 128, 240, 255}

\* 0x80-0xBF and 0xC6, 0xCE, 0xD6, 0xDE, 0xE6, 0xEE, 0xF6, 0xFE
AluOpcodes == (128 .. 191) \cup {198, 206, 214, 222, 230, 238, 246, 254}

InitAlu ==
    \E op \in AluOpcodes, v \in AluEdge, cy \in BOOLEAN :
    \E a \in (IF op >= 192 THEN Byte ELSE AluEdge) :
        /\ cpu = [Cpu_new EXCEPT !.pc = 49152, !.a = a, !.f.c = cy,
                                 !.b = v, !.c = v, !.d = v, !.e = v,
                                 !.h = v, !.l = v]
        /\ memory = [Memory_new EXCEPT !.data =
                        VecSet(VecSet(VecSet(ZeroVec, 49152, op), 49153, v),
                               v * 256 + v, v)]
        /\ fault = "none"
        /\ last = NoLast
        /\ hist = [NoHist EXCEPT !.cpu0 = cpu]

NextAlu == CpuExecute(MaxExecSteps)

SpecAlu == InitAlu /\ [][NextAlu]_vars

(***************************************************************************)
(* SpecStack: short programs at 0xC000 that push and pop register pairs.   *)
(* "around": PUSH rr; an instruction that may overwrite rr; POP rr.        *)
(* "four": PUSH BC, DE, HL, AF; POP AF, HL, DE, BC.                        *)
(* "pop": POP rr alone, the two bytes at SP holding any value.             *)
(***************************************************************************)
MaxStackSteps == 8

StackPairs == {"bc", "de", "hl", "af"}

\* 0x0000, 0x00FF, 0x1234, 0x80F0, 0xFF0F, 0xFFFF
StackValues == {0, 255, 4660, 33008, 65295, 65535}

\* 0xFFFE (the power-on SP), 0xD000, 0x0001 (the pushes wrap below 0x0000)
StackSPs == {65534, 53248, 1}

PushOpcode(p) ==
    CASE p = "bc" -> 197 [] p = "de" -> 213 [] p = "hl" -> 229 [] OTHER -> 245

PopOpcode(p) ==
    CASE p = "bc" -> 193 [] p = "de" -> 209 [] p = "hl" -> 225 [] OTHER -> 241

\* the instruction between PUSH rr and POP rr: LD rr,0xA55A, or XOR A for AF
Overwrite(p) ==
    CASE p = "bc" -> <<1, 90, 165>> [] p = "de" -> <<17, 90, 165>>
      [] p = "hl" -> <<33, 90, 165>> [] OTHER -> <<175>>

StackProgram(kind, p, between) ==
    CASE kind = "around" ->
             <<PushOpcode(p)>> \o (IF between THEN Overwrite(p) ELSE <<0>>)
                 \o <<PopOpcode(p)>>
      [] kind = "four" -> <<197, 213, 229, 245, 241, 225, 209, 193>>
      [] OTHER -> <<PopOpcode(p)>>

RECURSIVE PlaceBytes(_, _, _)
\* the bytes written to consecutive addresses from address on
PlaceBytes(data, address, bytes) ==
    IF bytes = <<>> THEN data
    ELSE PlaceBytes(VecSet(data, U16(address), Head(bytes)),
                    address + 1, Tail(bytes))

InitStack ==
    \E kind \in {"around", "four", "pop"}, p \in StackPairs,
       value \in StackValues, sp \in StackSPs, between \in BOOLEAN :
        /\ kind = "four" => p = "bc"
        /\ kind # "around" => between
        /\ cpu = LET c1 == SetPair([Cpu_new EXCEPT !.pc = 49152, !.sp = sp],
                                   p, value)
                 IN  IF kind = "four"
                     THEN set_af(set_hl(set_de(c1, U16(value + 4369)),
                                        U16(3 * value + 7)),
                                 U16(65535 - value))
                     ELSE c1
        /\ memory = [Memory_new EXCEPT !.data =
                        PlaceBytes(
                            IF kind = "pop"
                            THEN PlaceBytes(ZeroVec, sp,
                                            <<(65535 - value) % 256,
                                              (65535 - value) \div 256>>)
                            ELSE ZeroVec,
                            49152, StackProgram(kind, p, between))]
        /\ fault = "none"
        /\ last = NoLast
        /\ hist = [NoHist EXCEPT !.cpu0 = cpu]

NextStack == CpuExecute(MaxStackSteps)

SpecStack == InitStack /\ [][NextStack]_vars

(***************************************************************************)
(* SpecCall: programs of CALL nn and RET.  The main program at 0xC000      *)
(* calls T1; with depth 2 and 3, T1 calls T2 and T2 calls T3 before they   *)
(* return; with twice, the main program calls T1 a second time.            *)
(***************************************************************************)
MaxCallSteps == 7

\* 0xC100, 0xD123, 0x0150
CallTargets == {49408, 53539, 336}

\* 0xFFFE, 0xE000, 0x0003
CallSPs == {65534, 57344, 3}

\* CALL nn as three bytes, low byte of nn first
CallTo(nn) == <<205, nn % 256, nn \div 256>>

InitCall ==
    \E depth \in 1 .. 3, twice \in BOOLEAN, t1 \in CallTargets, sp \in CallSPs :
        /\ twice => depth = 1
        /\ cpu = [Cpu_new EXCEPT !.pc = 49152, !.sp = sp]
        /\ memory = [Memory_new EXCEPT !.data =
               PlaceBytes(
                   PlaceBytes(
                       PlaceBytes(
                           PlaceBytes(ZeroVec, 49152,
                               CallTo(t1) \o
                                   (IF twice THEN CallTo(t1) ELSE <<>>)),
                           t1, (IF depth >= 2 THEN CallTo(t1 + 16) ELSE <<>>)
                                   \o <<201>>),
                       t1 + 16, (IF depth >= 3 THEN CallTo(t1 + 32) ELSE <<>>)
                                    \o <<201>>),
                   t1 + 32, <<201>>)]
        /\ fault = "none"
        /\ last = NoLast
        /\ hist = [NoHist EXCEPT !.cpu0 = cpu]

NextCall == CpuExecute(MaxCallSteps)

SpecCall == InitCall /\ [][NextCall]_vars

(***************************************************************************)
(* SpecRun: GameBoy::run called repeatedly on a four-instruction program   *)
(* at 0x0100 made of NOP, INC A, PUSH BC and HALT.                         *)
(***************************************************************************)
MaxRuns == 3

MaxRunLength == 3

RunPieces == {0, 60, 118, 197}

\* one GameBoy::step on g, given what cpu.execute returned
StepResult(g, x) ==
    IF x.fault # "none" THEN [g EXCEPT !.fault = x.fault]
    ELSE [cpu    |-> x.cpu,
          mem    |-> StepAfterExecute(x).mem,
          fault  |-> "none",
          steps  |-> g.steps + 1,
          opcode |-> Memory_read_byte(g.mem, g.cpu.pc).val,
          cyc    |-> x.cyc]

\* GameBoy::step as a function of the machine
GameBoy_step(g) == StepResult(g, execute(g.cpu, g.mem))

RECURSIVE run_checks_after_step(_, _)
\* run testing halted after the step instead of before it
run_checks_after_step(g, num_instructions) ==
    IF num_instructions = 0 \/ g.fault # "none" THEN g
    ELSE LET g1 == GameBoy_step(g) IN
         IF g1.cpu.halted THEN g1
         ELSE run_checks_after_step(g1, num_instructions - 1)

RECURSIVE run(_, _)
\* GameBoy::run: up to num_instructions steps, none once halted is set
run(g, num_instructions) ==
    IF num_instructions = 0 \/ g.fault # "none" THEN g
    ELSE IF g.cpu.halted THEN g
    ELSE run(GameBoy_step(g), num_instructions - 1)

\* the machine as run finds it
Machine(c, m) ==
    [cpu |-> c, mem |-> m, fault |-> "none", steps |-> 0, opcode |-> 0, cyc |-> 0]

\* the state after GameBoy::run(num_instructions) returned g
RunDone(g, num_instructions) ==
    /\ fault' = g.fault
    /\ cpu' = IF g.fault = "none" THEN g.cpu ELSE cpu
    /\ memory' = IF g.fault = "none" THEN g.mem ELSE memory
    /\ last' = [NoLast EXCEPT !.op = "run", !.addr = num_instructions,
                              !.ret = g.steps, !.val = g.opcode,
                              !.cycles = g.cyc,
                              !.pre = cpu, !.preTimer = memory.timer]
    /\ hist' = [hist EXCEPT !.ops = @ + 1, !.steps = @ + g.steps]

\* GameBoy::run(num_instructions)
Run(num_instructions, cap) ==
    /\ fault = "none"
    /\ hist.ops < cap
    /\ RunDone(run(Machine(cpu, memory), num_instructions), num_instructions)

InitRun ==
    \E p1 \in RunPieces, p2 \in RunPieces, p3 \in RunPieces, p4 \in RunPieces :
        /\ cpu = Cpu_new
        /\ memory = [Memory_new EXCEPT !.data =
                        PlaceBytes(ZeroVec, 256, <<p1, p2, p3, p4>>)]
        /\ fault = "none"
        /\ last = NoLast
        /\ hist = NoHist

NextRun == \E n \in 0 .. MaxRunLength : Run(n, MaxRuns)

SpecRun == InitRun /\ [][NextRun]_vars

(***************************************************************************)
(* SpecMbc: GameBoy::load_rom of a cartridge, then reads and writes on the *)
(* bus at the edges of the MBC1 latch ranges and in external RAM.          *)
(***************************************************************************)
MaxMbcOps == 3

\* 32 KiB ROM only; 64 KiB MBC1 with 32 KiB RAM; 1 MiB MBC1; 2 MiB MBC1
\* with RAM and battery
MbcRoms ==
    {RomImage(32768, 0, 0, 0), RomImage(65536, 2, 1, 3),
     RomImage(1048576, 1, 5, 0), RomImage(2097152, 3, 6, 3)}

MbcWriteAddrs == {0, 8191, 8192, 16383, 16384, 24575, 24576, 32767, 40960}

MbcValues == {0, 1, 2, 5, 10, 32, 255}

MbcReadAddrs == {0, 336, 16383, 16384, 20000, 32767, 40960}

InitMbc ==
    \E rom \in MbcRoms :
        /\ cpu = Cpu_new
        /\ memory = load_cartridge(Memory_new, Cartridge_load(rom)[1])
        /\ fault = "none"
        /\ last = NoLast
        /\ hist = NoHist

NextMbc ==
    \/ \E a \in MbcWriteAddrs, v \in MbcValues : BusWrite(a, v, MaxMbcOps)
    \/ \E a \in MbcReadAddrs : BusRead(a, MaxMbcOps)

SpecMbc == InitMbc /\ [][NextMbc]_vars

(***************************************************************************)
(* SpecRam: an MBC1 cartridge with 32 KiB, 2 KiB or no external RAM, then  *)
(* writes of the RAM-enable, RAM-bank and mode latches and accesses to the *)
(* first and last byte of the external-RAM window.                         *)
(***************************************************************************)
MaxRamOps == 7

RamRoms ==
    {RomImage(65536, 3, 1, 3), RomImage(65536, 2, 1, 1),
     RomImage(65536, 1, 1, 0)}

\* 0x0000, 0x4000, 0x6000, 0xA000, 0xBFFF
RamWriteAddrs == {0, 16384, 24576, 40960, 49151}

RamReadAddrs == {40960, 49151}

RamValues == {0, 1, 10}

InitRam ==
    \E rom \in RamRoms :
        /\ cpu = Cpu_new
        /\ memory = load_cartridge(Memory_new, Cartridge_load(rom)[1])
        /\ fault = "none"
        /\ last = NoLast
        /\ hist = NoHist

NextRam ==
    \/ \E a \in RamWriteAddrs, v \in RamValues : BusWrite(a, v, MaxRamOps)
    \/ \E a \in RamReadAddrs : BusRead(a, MaxRamOps)

SpecRam == InitRam /\ [][NextRam]_vars

(***************************************************************************)
(* SpecLoad: GameBoy::load_rom applied to files of several lengths with    *)
(* valid and invalid header bytes, until one is accepted.                  *)
(***************************************************************************)
LoadLengths == {0, 335, 336, 65536}

LoadTypes == {0, 1, 3, 252}

LoadRomCodes == {0, 1, 6, 8, 9, 255}

LoadRamCodes == {0, 1, 2, 3, 4, 5, 6, 255}

LoadFiles ==
    {RomImage(len, type, romCode, ramCode) :
        len \in LoadLengths, type \in LoadTypes,
        romCode \in LoadRomCodes, ramCode \in LoadRamCodes}

NextLoad == \E rom \in LoadFiles : LoadRom(rom)

SpecLoad == Init /\ [][NextLoad]_vars

(***************************************************************************)
(* SpecBoundary: GameBoy::step on a program at 0xC000 that points HL at    *)
(* 0xFF04, counts B down in a loop, then reads DIV, writes DIV or does     *)
(* neither, and ends in JR -2, stepped until the counter has wrapped.      *)
(***************************************************************************)
MaxBoundarySteps == 5500

BoundaryCounts == {14, 15}

BoundaryNops == {1, 2}

\* LD A,(HL); LD (HL),A; NOP
BoundaryFinals == {126, 119, 0}

\* LD HL,0xFF04; LD B,n; DEC B; JR NZ,-3; NOP ...; final; JR -2
BoundaryProgram(n, nops, final) ==
    <<33, 4, 255, 6, n, 5, 32, 253>>
        \o [i \in 1 .. nops |-> 0] \o <<final, 24, 254>>

InitBoundary ==
    \E n \in BoundaryCounts, nops \in BoundaryNops, final \in BoundaryFinals :
        /\ cpu = [Cpu_new EXCEPT !.pc = 49152]
        /\ memory = [Memory_new EXCEPT !.data =
                        PlaceBytes(ZeroVec, 49152,
                                   BoundaryProgram(n, nops, final))]
        /\ fault = "none"
        /\ last = NoLast
        /\ hist = [NoHist EXCEPT !.cpu0 = cpu]

NextBoundary == Step(MaxBoundarySteps)

SpecBoundary == InitBoundary /\ [][NextBoundary]_vars

(***************************************************************************)
(* SpecDaa: DAA at 0xC000 for every A and every flag combination, and      *)
(* ADD A,B followed by DAA for every pair of packed-BCD bytes.             *)
(***************************************************************************)
MaxDaaSteps == 2

\* the packed-BCD bytes 0x00 .. 0x99
BcdBytes == {16 * hi + lo : hi \in 0 .. 9, lo \in 0 .. 9}

InitDaa ==
    /\ \/ \E a \in Byte, z \in BOOLEAN, n \in BOOLEAN, h \in BOOLEAN,
             c \in BOOLEAN :
              /\ cpu = [Cpu_new EXCEPT !.pc = 49152, !.a = a,
                           !.f = [z |-> z, n |-> n, h |-> h, c |-> c]]
              /\ memory = [Memory_new EXCEPT !.data =
                              PlaceBytes(ZeroVec, 49152, <<39>>)]
       \/ \E a \in BcdBytes, b \in BcdBytes :
              /\ cpu = [Cpu_new EXCEPT !.pc = 49152, !.a = a, !.b = b]
              /\ memory = [Memory_new EXCEPT !.data =
                              PlaceBytes(ZeroVec, 49152, <<128, 39>>)]
    /\ fault = "none"
    /\ last = NoLast
    /\ hist = [NoHist EXCEPT !.cpu0 = cpu]

NextDaa == CpuExecute(MaxDaaSteps)

SpecDaa == InitDaa /\ [][NextDaa]_vars

(***************************************************************************)
(* Programs on one operand value.  The byte v is in A, B, C, D, E, H and   *)
(* L, so HL = SP = v * 0x0101, and at (HL); Z, N and H are bits 0, 1 and 2 *)
(* of v and C is cy; the program is at 0xC000.                             *)
(***************************************************************************)
OperandCpu(v, cy) ==
    [Cpu_new EXCEPT !.pc = 49152, !.sp = v * 257, !.a = v,
                    !.b = v, !.c = v, !.d = v, !.e = v, !.h = v, !.l = v,
                    !.f = [z |-> v % 2 = 1, n |-> (v \div 2) % 2 = 1,
                           h |-> (v \div 4) % 2 = 1, c |-> cy]]

OperandMemory(program, v) ==
    [Memory_new EXCEPT !.data =
        PlaceBytes(VecSet(ZeroVec, v * 257, v), 49152, program)]

(***************************************************************************)
(* SpecIncDec: one INC or DEC of a register, of (HL) or of a register      *)
(* pair, for every operand byte.                                           *)
(***************************************************************************)
\* INC r / DEC r (0x04 + 8i, 0x05 + 8i) and INC rr / DEC rr (0x03 + 16j,
\* 0x0B + 16j)
IncDecOpcodes ==
    {4 + 8 * i : i \in 0 .. 7} \cup {5 + 8 * i : i \in 0 .. 7}
        \cup {3 + 16 * j : j \in 0 .. 3} \cup {11 + 16 * j : j \in 0 .. 3}

InitIncDec ==
    \E op \in IncDecOpcodes, v \in Byte, cy \in BOOLEAN :
        /\ cpu = OperandCpu(v, cy)
        /\ memory = OperandMemory(<<op>>, v)
        /\ fault = "none"
        /\ last = NoLast
        /\ hist = [NoHist EXCEPT !.cpu0 = cpu]

NextIncDec == CpuExecute(MaxExecSteps)

SpecIncDec == InitIncDec /\ [][NextIncDec]_vars

(***************************************************************************)
(* SpecBit: one CB-prefixed BIT, RES or SET (0xCB 0x40 .. 0xCB 0xFF) for   *)
(* every operand byte.                                                     *)
(***************************************************************************)
BitOpcodes == 64 .. 255

InitBit ==
    \E op \in BitOpcodes, v \in Byte, cy \in BOOLEAN :
        /\ cpu = OperandCpu(v, cy)
        /\ memory = OperandMemory(<<203, op>>, v)
        /\ fault = "none"
        /\ last = NoLast
        /\ hist = [NoHist EXCEPT !.cpu0 = cpu]

NextBit == CpuExecute(MaxExecSteps)

SpecBit == InitBit /\ [][NextBit]_vars

(***************************************************************************)
(* SpecRoundTrip: two CB-prefixed rotates or shifts of the same operand,   *)
(* one undoing the other: RLC then RRC, SWAP twice, SLA then SRL.          *)
(***************************************************************************)
MaxRoundTripSteps == 2

\* second bytes of the pairs for operand 0: RLC/RRC, SWAP/SWAP, SLA/SRL
RoundTripPairs == {<<0, 8>>, <<48, 48>>, <<32, 56>>}

InitRoundTrip ==
    \E p \in RoundTripPairs, i \in 0 .. 7, v \in Byte, cy \in BOOLEAN :
        /\ cpu = OperandCpu(v, cy)
        /\ memory = OperandMemory(<<203, p[1] + i, 203, p[2] + i>>, v)
        /\ fault = "none"
        /\ last = NoLast
        /\ hist = [NoHist EXCEPT !.cpu0 = cpu]

NextRoundTrip == CpuExecute(MaxRoundTripSteps)

SpecRoundTrip == InitRoundTrip /\ [][NextRoundTrip]_vars

(***************************************************************************)
(* SpecRotateA: RLCA, RRCA, RLA or RRA, or the CB-prefixed rotate of A     *)
(* with the same second byte (RLC A, RRC A, RL A, RR A), on every byte.    *)
(***************************************************************************)
\* RLCA 0x07, RRCA 0x0F, RLA 0x17, RRA 0x1F; CB 0x07, 0x0F, 0x17, 0x1F
RotateAOpcodes == {7, 15, 23, 31}

InitRotateA ==
    \E op \in RotateAOpcodes, prefixed \in BOOLEAN, v \in Byte, cy \in BOOLEAN :
        /\ cpu = OperandCpu(v, cy)
        /\ memory = OperandMemory(IF prefixed THEN <<203, op>> ELSE <<op>>, v)
        /\ fault = "none"
        /\ last = NoLast
        /\ hist = [NoHist EXCEPT !.cpu0 = cpu]

NextRotateA == CpuExecute(MaxExecSteps)

SpecRotateA == InitRotateA /\ [][NextRotateA]_vars

(***************************************************************************)
(* SpecLdHlSp: LD HL,SP+n (0xF8 n) at 0xC000 for every offset byte, with   *)
(* SP around the nibble, byte and word boundaries and all flags set.       *)
(***************************************************************************)
\* 0x0000-0x001F, 0x0070-0x008F, 0x00E0-0x011F, 0xFFE0-0xFFFF
LdHlSpSPs == (0 .. 31) \cup (112 .. 143) \cup (224 .. 287) \cup (65504 .. 65535)

InitLdHlSp ==
    \E sp \in LdHlSpSPs, n \in Byte :
        /\ cpu = [Cpu_new EXCEPT !.pc = 49152, !.sp = sp, !.h = 18, !.l = 52,
                      !.f = [z |-> TRUE, n |-> TRUE, h |-> TRUE, c |-> TRUE]]
        /\ memory = [Memory_new EXCEPT !.data = PlaceBytes(ZeroVec, 49152, <<248, n>>)]
        /\ fault = "none"
        /\ last = NoLast
        /\ hist = [NoHist EXCEPT !.cpu0 = cpu]

NextLdHlSp == CpuExecute(MaxExecSteps)

SpecLdHlSp == InitLdHlSp /\ [][NextLdHlSp]_vars

(***************************************************************************)
(* SpecRst: RST at address p with RET (0xC9) at the vector it jumps to.    *)
(***************************************************************************)
MaxRstSteps == 2

RstOpcodes == {199, 207, 215, 223, 231, 239, 247, 255}

\* 0x0100, 0xC000, 0xC8FF, 0xD0FF, 0xFFFF
RstAddrs == {256, 49152, 51455, 53503, 65535}

\* 0xFFFE, 0xE000, 0x0100, 0x0001
RstSPs == {65534, 57344, 256, 1}

InitRst ==
    \E op \in RstOpcodes, p \in RstAddrs, sp \in RstSPs :
        /\ cpu = [Cpu_new EXCEPT !.pc = p, !.sp = sp]
        /\ memory = [Memory_new EXCEPT !.data =
                        VecSet(VecSet(ZeroVec, op - 199, 201), p, op)]
        /\ fault = "none"
        /\ last = NoLast
        /\ hist = [NoHist EXCEPT !.cpu0 = cpu]

NextRst == CpuExecute(MaxRstSteps)

SpecRst == InitRst /\ [][NextRst]_vars

(***************************************************************************)
(* SpecLdi: the loads that post-increment or post-decrement HL.  A "one"   *)
(* program is a single LD (HL+),A, LD (HL-),A, LD A,(HL+) or LD A,(HL-);   *)
(* a "fill" program is LD A,n; LD (HL+),A repeated k times.  The program   *)
(* is at 0xC000.                                                           *)
(***************************************************************************)
MaxLdiSteps == 6

MaxFill == 3

\* LD (HL+),A 0x22, LD A,(HL+) 0x2A, LD (HL-),A 0x32, LD A,(HL-) 0x3A
LdiOpcodes == {34, 42, 50, 58}

\* 0x0000, 0xC100, 0xD0FF, 0xFFFF
LdiHLs == {0, 49408, 53503, 65535}

LdiValues == {0, 16, 17}

\* LD A,n; LD (HL+),A for each n of values
RECURSIVE FillProgram(_)
FillProgram(values) ==
    IF values = <<>> THEN <<>>
    ELSE <<62, Head(values), 34>> \o FillProgram(Tail(values))

InitLdi ==
    \E one \in BOOLEAN, op \in LdiOpcodes, h \in LdiHLs, k \in 1 .. MaxFill,
       a \in {0, 85}, cy \in BOOLEAN :
    \E values \in [1 .. k -> LdiValues] :
        /\ one => (k = 1 /\ values[1] = 0)
        /\ ~one => (op = 34 /\ a = 0 /\ cy)
        /\ cpu = set_hl([Cpu_new EXCEPT !.pc = 49152, !.a = a,
                           !.f = [z |-> ~cy, n |-> TRUE, h |-> cy, c |-> cy]], h)
        /\ memory = [Memory_new EXCEPT !.data =
                        PlaceBytes(VecSet(ZeroVec, h, 170), 49152,
                                   IF one THEN <<op>> ELSE FillProgram(values))]
        /\ fault = "none"
        /\ last = NoLast
        /\ hist = [NoHist EXCEPT !.cpu0 = cpu]

NextLdi == CpuExecute(MaxLdiSteps)

SpecLdi == InitLdi /\ [][NextLdi]_vars

(***************************************************************************)
(* SpecWord: Memory::write_word and Memory::read_word called on the bus    *)
(* with no cartridge loaded, and LD (nn),SP (0x08 nn) at 0xC000.           *)
(***************************************************************************)
MaxWordOps == 2

\* 0x7FFF, 0xD0FF, 0xDFFF, 0xFF03, 0xFF04, 0xFFFF
WordAddrs == {32767, 53503, 57343, 65283, DIV, 65535}

\* 0x00FF, 0x1234
WordValues == {255, 4660}

\* 0x1234, 0xFFFE
WordSPs == {4660, 65534}

\* Memory::write_word(address, value)
WordWrite(address, value, cap) ==
    /\ fault = "none"
    /\ hist.ops < cap
    /\ LET x == Memory_write_word(Ctx(cpu, memory), address, value) IN
       /\ fault' = x.fault
       /\ memory' = IF x.fault = "none" THEN x.mem ELSE memory
       /\ hist' = IF x.fault = "none"
                  THEN [hist EXCEPT !.ops = @ + 1,
                                    !.n = IF DIV \in x.wrote THEN 0 ELSE @]
                  ELSE hist
    /\ last' = [NoLast EXCEPT !.op = "write_word", !.addr = address,
                              !.val = value, !.pre = cpu,
                              !.preTimer = memory.timer]
    /\ UNCHANGED cpu

\* Memory::read_word(address)
WordRead(address, cap) ==
    /\ fault = "none"
    /\ hist.ops < cap
    /\ LET r == Memory_read_word(memory, address) IN
       /\ fault' = r.fault
       /\ last' = [NoLast EXCEPT !.op = "read_word", !.addr = address,
                                 !.val = last.val,
                                 !.ret = r.val, !.pre = cpu,
                                 !.preTimer = memory.timer,
                                 !.wrote = IF last.op = "write_word"
                                           THEN {last.addr} ELSE {}]
    /\ hist' = [hist EXCEPT !.ops = @ + 1]
    /\ UNCHANGED <<cpu, memory>>

InitWord ==
    \E sp \in WordSPs, nn \in WordAddrs :
        /\ cpu = [Cpu_new EXCEPT !.pc = 49152, !.sp = sp]
        /\ memory = [Memory_new EXCEPT !.data =
                        PlaceBytes(ZeroVec, 49152, <<8, nn % 256, nn \div 256>>)]
        /\ fault = "none"
        /\ last = NoLast
        /\ hist = [NoHist EXCEPT !.cpu0 = cpu]

NextWord ==
    \/ \E a \in WordAddrs, w \in WordValues : WordWrite(a, w, MaxWordOps)
    \/ \E a \in WordAddrs : WordRead(a, MaxWordOps)
    \/ CpuExecute(MaxExecSteps)

SpecWord == InitWord /\ [][NextWord]_vars

(***************************************************************************)
(* SpecPlain: cartridges without a bank controller under bus writes and    *)
(* reads in cartridge space, next to one MBC1 cartridge.                   *)
(***************************************************************************)
MaxPlainOps == 3

\* ROM only (32 KiB), ROM only with an 8 KiB RAM code, type 0xFC with
\* 32 KiB of RAM, type 0x05 (64 KiB), and MBC1 with RAM (64 KiB, 32 KiB RAM)
PlainRoms ==
    {RomImage(32768, 0, 0, 0), RomImage(32768, 0, 0, 2),
     RomImage(65536, 252, 1, 3), RomImage(65536, 5, 1, 0),
     RomImage(65536, 2, 1, 3)}

\* 0x0000, 0x1FFF, 0x2000, 0x4000, 0x6000, 0x7FFF, 0xA000, 0xBFFF
PlainAddrs == {0, 8191, 8192, 16384, 24576, 32767, 40960, 49151}

PlainValues == {0, 1, 2, 10, 255}

InitPlain ==
    \E rom \in PlainRoms :
        /\ cpu = Cpu_new
        /\ memory = load_cartridge(Memory_new, Cartridge_load(rom)[1])
        /\ fault = "none"
        /\ last = NoLast
        /\ hist = [NoHist EXCEPT !.file = <<rom>>]

NextPlain ==
    \/ \E a \in PlainAddrs, v \in PlainValues : BusWrite(a, v, MaxPlainOps)
    \/ \E a \in PlainAddrs : BusRead(a, MaxPlainOps)

SpecPlain == InitPlain /\ [][NextPlain]_vars

(***************************************************************************)
(* SpecIrq: GameBoy::step with interrupt requests pending in 0xFF0F, under *)
(* each value of 0xFFFF (IE), of the interrupt-master-enable flag and of   *)
(* the halted flag.  The program is one instruction at 0xC000.             *)
(***************************************************************************)
MaxIrqSteps == 2

\* NOP; HALT; DI; EI; LD (0xFF0F),A; LD A,(0xFFFF); JP 0xC000
IrqPrograms ==
    {<<0>>, <<118>>, <<243>>, <<251>>, <<234, 15, 255>>, <<250, 255, 255>>,
     <<195, 0, 192>>}

IrqRequests == {0, 4, 27, 31, 224, 255}

IrqEnables == {0, 31}

InitIrq ==
    \E program \in IrqPrograms, halted \in BOOLEAN, ime \in BOOLEAN,
       requests \in IrqRequests, enables \in IrqEnables :
        /\ cpu = [Cpu_new EXCEPT !.pc = 49152, !.halted = halted,
                                 !.interrupts_enabled = ime]
        /\ memory = [Memory_new EXCEPT !.data =
                        PlaceBytes(VecSet(VecSet(ZeroVec, IF_ADDR, requests),
                                          65535, enables),
                                   49152, program)]
        /\ fault = "none"
        /\ last = NoLast
        /\ hist = [NoHist EXCEPT !.cpu0 = cpu]

NextIrq == Step(MaxIrqSteps)

SpecIrq == InitIrq /\ [][NextIrq]_vars

(***************************************************************************)
(* Properties.                                                             *)
(***************************************************************************)
\* the byte the bus reads at 0xFF0F in the current state
IFByte == Memory_read_byte(memory, IF_ADDR).val

\* C1: whenever the tick at the end of a step reports an overflow, the byte
\* at 0xFF0F after the step is its value before the tick OR 0x04: 0x1B
\* becomes 0x1F and 0x00 becomes exactly 0x04.
C1_StepRaisesTimerInterrupt ==
    (last.op = "step" /\ fault = "none" /\ last.overflow) =>
        /\ IFByte = BitOr(last.ifBefore, 4)
        /\ last.ifBefore = 27 => IFByte = 31
        /\ last.ifBefore = 0 => IFByte = 4

\* a second step that found 0x1B at 0xFF0F and left 0x1F
C1_Witness ==
    /\ last.op = "step" /\ fault = "none" /\ last.overflow
    /\ hist.steps >= 2
    /\ last.ifBefore = 27
    /\ IFByte = 31

\* no TIMA overflow can be due: the timer is disabled before and after the
\* step, or TAC has not changed since the count began and fewer cycles have
\* passed than TIMA needs to pass 0xFF at the selected rate
C2_NoTimaOverflow ==
    \/ ~is_timer_enabled(last.preTimer) /\ ~is_timer_enabled(memory.timer)
    \/ /\ hist.fresh
       /\ hist.n < get_tima_frequency(memory.timer) * (256 - last.preTimer.tima)

\* C2: a step during which TIMA does not overflow and whose instruction
\* does not write 0xFF0F leaves the byte at 0xFF0F as it was.
C2_IfUnchangedWithoutOverflow ==
    (/\ last.op = "step" /\ fault = "none"
     /\ IF_ADDR \notin last.wrote
     /\ C2_NoTimaOverflow) => IFByte = last.ifBefore

\* the overflow the tick is due to report: the timer enabled and the
\* increments owed by the cycles carrying TIMA past 0xFF
C3_OverflowDue(t, cycles) ==
    /\ is_timer_enabled(t)
    /\ t.tima + (t.tima_counter + cycles) \div get_tima_frequency(t) > 255

\* C3: a tick call returns true exactly when TIMA overflows during it, and
\* then TIMA holds TMA.
C3_TickReportsOverflow ==
    last.op = "tick" =>
        /\ last.overflow <=> C3_OverflowDue(last.preTimer, last.cycles)
        /\ last.overflow => memory.timer.tima = last.preTimer.tma

\* C4: with the timer enabled since before the first tick and TIMA started
\* at 0, after ticks summing to n cycles without overflow TIMA is
\* floor(n / T), and reading 0xFF05 returns it.
C4_TimaRate ==
    (/\ hist.fresh
     /\ is_timer_enabled(memory.timer)
     /\ hist.n \div get_tima_frequency(memory.timer) <= 255) =>
        /\ memory.timer.tima = hist.n \div get_tima_frequency(memory.timer)
        /\ (last.op = "read" /\ last.addr = TIMA) =>
               /\ fault = "none"
               /\ last.ret = hist.n \div get_tima_frequency(memory.timer)

\* C5: reading 0xFF04 returns floor(n / 256) mod 256, n the cycles ticked
\* since the timer was created or 0xFF04 was last written, whatever TAC
\* holds; the counter is back at 0 after 65536 cycles.
C5_DivReadsCycleCount ==
    /\ read_register(memory.timer, DIV) =
           [fault |-> "none", val |-> (hist.n \div 256) % 256]
    /\ (last.op = "read" /\ last.addr = DIV) =>
           fault = "none" /\ last.ret = (hist.n \div 256) % 256
    /\ hist.n = 65536 => memory.timer.div_counter = 0

\* the tick that completes 65536 cycles, with the timer enabled
C5_Witness ==
    /\ last.op = "tick"
    /\ hist.n = 65536
    /\ memory.timer.tac = 5
    /\ last.preTimer.div_counter = 65536 - last.cycles
    /\ read_register(memory.timer, DIV).val = 0

\* the three plain timer registers
C6_Registers == {TIMA, TMA, TAC}

\* C6: a new timer reads 0x00 at 0xFF04-0xFF07, and a write of v to
\* 0xFF05, 0xFF06 or 0xFF07 returns normally, is read back as v on the
\* timer and through the bus, and leaves the other two registers' values.
C6_RegistersReadBack ==
    /\ (last.op = "read" /\ last.preTimer = Timer_new) =>
           fault = "none" /\ last.ret = 0
    /\ (last.op = "write" /\ last.addr \in C6_Registers) =>
           /\ fault = "none"
           /\ read_register(memory.timer, last.addr).val = last.val
           /\ Memory_read_byte(memory, last.addr).val = last.val
           /\ \A a \in C6_Registers \ {last.addr} :
                  read_register(memory.timer, a) =
                      read_register(last.preTimer, a)

\* the TIMA a tick is due to leave when no overflow occurs
C7_TimaDue(t, cycles) ==
    IF is_timer_enabled(t)
    THEN t.tima + (t.tima_counter + cycles) \div get_tima_frequency(t)
    ELSE t.tima

\* C7: a tick with TAC bit 2 clear leaves TIMA as it was; a tick with bit 2
\* set adds the increments the cycles are worth at the selected rate (at
\* T = 16, sixteen cycles add exactly 1).
C7_TimaCountsOnlyWhenEnabled ==
    (last.op = "tick" /\ C7_TimaDue(last.preTimer, last.cycles) <= 255) =>
        memory.timer.tima = C7_TimaDue(last.preTimer, last.cycles)

\* C8: every read and write on the bus returns normally.
C8_NoFaultOnBus == fault = "none"

\* the register an opcode's three-bit field names; 6 is (HL)
C9_Reg(i) ==
    CASE i = 0 -> "b" [] i = 1 -> "c" [] i = 2 -> "d" [] i = 3 -> "e"
      [] i = 4 -> "h" [] i = 5 -> "l" [] OTHER -> "a"

\* LD r,r' for r, r' in {A, B, C, D, E, H, L}
C9_Moves ==
    {64 + 8 * d + s : d \in (0..7) \ {6}, s \in (0..7) \ {6}}

\* LDH (n),A; LDH A,(n); LD (C),A; LD A,(C)
C9_HighLoads == {224, 240, 226, 242}

\* C9: execute runs every LD r,r' in 4 cycles, leaving r equal to the value
\* r' had, and runs the four high-memory loads; none of them ends in the
\* unmapped-opcode panic.
C9_RegisterTransfersExecute ==
    (last.op = "execute" /\ last.val \in C9_Moves \cup C9_HighLoads) =>
        /\ fault # "opcode"
        /\ last.val \in C9_Moves =>
               /\ last.cycles = 4
               /\ cpu[C9_Reg((last.val \div 8) % 8)] =
                      last.pre[C9_Reg(last.val % 8)]

\* the encoded length of the instruction an opcode starts
C10_Length(op) ==
    IF op \in {1, 17, 33, 49, 8, 194, 195, 202, 210, 218,
               196, 204, 205, 212, 220, 234, 250} THEN 3
    ELSE IF op \in {6, 14, 22, 30, 38, 46, 54, 62, 16, 24, 32, 40, 48, 56,
                    198, 206, 214, 222, 230, 238, 246, 254,
                    224, 240, 232, 248, 203} THEN 2
    ELSE 1

\* the condition NZ, Z, NC, C in bits 4-3 of a conditional opcode
C10_CondHolds(op, f) ==
    CASE (op \div 8) % 4 = 0 -> ~f.z
      [] (op \div 8) % 4 = 1 -> f.z
      [] (op \div 8) % 4 = 2 -> ~f.c
      [] OTHER               -> f.c

\* a taken jump, a call, a return or RST
C10_TransfersControl(op, f) ==
    \/ op \in {24, 195, 205, 201, 217, 233}
    \/ op \in {199, 207, 215, 223, 231, 239, 247, 255}
    \/ /\ op \in {32, 40, 48, 56, 194, 202, 210, 218,
                  196, 204, 212, 220, 192, 200, 208, 216}
       /\ C10_CondHolds(op, f)

\* C10: execute returns a cycle count in {4, 8, 12, 16, 20, 24} and, unless
\* the instruction transfers control, leaves PC at the old PC plus the
\* instruction's length modulo 2^16 (NOP +1 in 4, LD A,n +2 in 8,
\* LD BC,nn +3 in 12, a CB-prefixed register operation +2 in 8).
C10_CyclesAndLength ==
    (last.op = "execute" /\ fault = "none") =>
        /\ last.cycles \in {4, 8, 12, 16, 20, 24}
        /\ ~C10_TransfersControl(last.val, last.pre.f) =>
               cpu.pc = (last.pre.pc + C10_Length(last.val)) % 65536
        /\ last.val = 0 => last.cycles = 4
        /\ last.val = 62 => last.cycles = 8
        /\ last.val = 1 => last.cycles = 12
        /\ (/\ last.val = 203
            /\ Memory_read_byte(memory, U16(last.pre.pc + 1)).val % 8 # 6) =>
               last.cycles = 8

\* LD BC,nn fetched across the top of the address space: PC 0xFFFE to 0x0001
C10_Witness ==
    /\ last.op = "execute" /\ fault = "none"
    /\ last.val = 1
    /\ last.pre.pc = 65534
    /\ cpu.pc = 1
    /\ last.cycles = 12

\* the register bits 2-0 of an opcode name; 6 is (HL)
OperandReg(i) ==
    CASE i = 0 -> "b" [] i = 1 -> "c" [] i = 2 -> "d" [] i = 3 -> "e"
      [] i = 4 -> "h" [] i = 5 -> "l" [] OTHER -> "a"

\* the operand of the ALU instruction last executed, read from the state
\* it started in: a register, the byte at (HL) or the immediate byte
C11_Operand ==
    IF last.val >= 192
    THEN Memory_read_byte(memory, U16(last.pre.pc + 1)).val
    ELSE IF last.val % 8 = 6
         THEN Memory_read_byte(memory, hl(last.pre)).val
         ELSE last.pre[OperandReg(last.val % 8)]

\* A and the flags an ALU operation is due to leave; kind is bits 5-3 of
\* the opcode: ADD, ADC, SUB, SBC, AND, XOR, OR, CP
C11_Due(kind, a, v, cy) ==
    LET c   == IF kind \in {1, 3} THEN cy ELSE 0
        out == CASE kind \in {0, 1}    -> (a + v + c) % 256
                 [] kind \in {2, 3, 7} -> (a - v - c) % 256
                 [] kind = 4           -> BitAnd(a, v)
                 [] kind = 5           -> BitXor(a, v)
                 [] OTHER              -> BitOr(a, v)
    IN  [a |-> IF kind = 7 THEN a ELSE out,
         f |-> [z |-> out = 0,
                n |-> kind \in {2, 3, 7},
                h |-> CASE kind \in {0, 1}    -> (a % 16) + (v % 16) + c > 15
                        [] kind \in {2, 3, 7} -> (a % 16) < (v % 16) + c
                        [] OTHER              -> kind = 4,
                c |-> CASE kind \in {0, 1}    -> a + v + c > 255
                        [] kind \in {2, 3, 7} -> a < v + c
                        [] OTHER              -> FALSE]]

\* C11: every ALU instruction on A, in register, (HL) and immediate form,
\* leaves in A and in Z, N, H, C the result and flags of its operation on
\* the old A, the operand and the carry-in; CP leaves A unchanged.
C11_AluResultAndFlags ==
    (last.op = "execute" /\ last.val \in AluOpcodes) =>
        LET due == C11_Due((last.val \div 8) % 8, last.pre.a, C11_Operand,
                           B2N(last.pre.f.c))
        IN  /\ fault = "none"
            /\ cpu.a = due.a
            /\ cpu.f = due.f

\* ADC A,n with A = 0xFF, n = 0x00 and carry-in 1: A = 0x00 with Z, H, C
C11_Witness ==
    /\ last.op = "execute" /\ fault = "none"
    /\ last.val = 206
    /\ last.pre.a = 255 /\ last.pre.f.c /\ C11_Operand = 0
    /\ cpu.a = 0
    /\ cpu.f = [z |-> TRUE, n |-> FALSE, h |-> TRUE, c |-> TRUE]

\* the pair bits 5-4 of a PUSH or POP opcode name
C12_Pair(op) ==
    CASE (op \div 16) % 4 = 0 -> "bc" [] (op \div 16) % 4 = 1 -> "de"
      [] (op \div 16) % 4 = 2 -> "hl" [] OTHER -> "af"

C12_Pushes == {197, 213, 229, 245}

C12_Pops == {193, 209, 225, 241}

\* the byte the bus reads at an address, and the i-th byte of the program
C12_Byte(a) == Memory_read_byte(memory, a % 65536).val

C12_Prog(i) == C12_Byte(49152 + i)

\* C12: PUSH rr leaves SP - 2 with the high byte at old SP - 1 and the low
\* byte at old SP - 2 (low nibble 0 for AF); POP rr loads the pair from SP
\* and SP + 1 with F's low nibble read as 0; after PUSH rr, any instruction
\* and POP rr, and after PUSH BC, DE, HL, AF and POP AF, HL, DE, BC, the
\* pairs and SP are what they were before the first PUSH.
C12_StackRoundTrip ==
    /\ fault = "none"
    /\ (last.op = "execute" /\ last.val \in C12_Pushes) =>
           LET v == GetPair(last.pre, C12_Pair(last.val)) IN
           /\ cpu.sp = (last.pre.sp + 65534) % 65536
           /\ C12_Byte(last.pre.sp + 65535) = v \div 256
           /\ C12_Byte(last.pre.sp + 65534) = v % 256
           /\ last.val = 245 => C12_Byte(last.pre.sp + 65534) % 16 = 0
    /\ (last.op = "execute" /\ last.val \in C12_Pops) =>
           LET v == C12_Byte(last.pre.sp + 1) * 256 + C12_Byte(last.pre.sp) IN
           /\ cpu.sp = (last.pre.sp + 2) % 65536
           /\ GetPair(cpu, C12_Pair(last.val)) =
                  IF last.val = 241 THEN v - (v % 16) ELSE v
    /\ (C12_Prog(0) \in C12_Pushes /\ C12_Prog(1) \notin C12_Pushes
            /\ hist.steps >= 3) =>
           /\ GetPair(cpu, C12_Pair(C12_Prog(0))) =
                  GetPair(hist.cpu0, C12_Pair(C12_Prog(0)))
           /\ cpu.sp = hist.cpu0.sp
    /\ (C12_Prog(0) \in C12_Pushes /\ C12_Prog(1) \in C12_Pushes
            /\ hist.steps >= 8) =>
           /\ \A p \in StackPairs : GetPair(cpu, p) = GetPair(hist.cpu0, p)
           /\ cpu.sp = hist.cpu0.sp

\* POP DE has restored DE = 0x1234 and SP = 0x0001 after PUSH DE stored it
\* at 0x0000 and 0xFFFF and LD DE,0xA55A overwrote the pair
C12_Witness ==
    /\ hist.steps = 3 /\ fault = "none"
    /\ C12_Prog(0) = 213 /\ C12_Prog(1) = 17
    /\ last.val = 209
    /\ de(last.pre) = 42330
    /\ last.pre.sp = 65535
    /\ de(cpu) = 4660
    /\ cpu.sp = 1

\* the 16-bit word the bus reads at address a of memory m, low byte first
C13_WordAt(m, a) ==
    Memory_read_byte(m, a % 65536).val
        + 256 * Memory_read_byte(m, (a + 1) % 65536).val

\* this step executed the instruction with this opcode and returned
C13_Ran(op) == last'.op = "execute" /\ last'.val = op /\ fault' = "none"

\* C13: CALL nn at p stores p + 3 on the stack, jumps to nn and takes 24
\* cycles; RET pops PC, adds 2 to SP and takes 16 cycles; each RET returns
\* to the address after the most recent CALL not yet returned from, and the
\* RET that closes the first CALL leaves SP as it was before that CALL.
C13_CallRetPairing ==
    [][/\ C13_Ran(205) =>
              /\ cpu'.pc = C13_WordAt(memory, cpu.pc + 1)
              /\ last'.cycles = 24
              /\ cpu'.sp = (cpu.sp + 65534) % 65536
              /\ C13_WordAt(memory', cpu'.sp) = (cpu.pc + 3) % 65536
       /\ C13_Ran(201) =>
              /\ cpu'.pc = C13_WordAt(memory, cpu.sp)
              /\ cpu'.sp = (cpu.sp + 2) % 65536
              /\ last'.cycles = 16
              /\ hist.calls # <<>> =>
                     /\ cpu'.pc = Head(hist.calls)
                     /\ Len(hist.calls) = 1 => cpu'.sp = hist.cpu0.sp]_vars

\* three nested calls all returned: the sixth instruction is the RET of T1,
\* back at 0xC003 with SP where it started
C13_Witness ==
    /\ hist.steps = 6 /\ fault = "none"
    /\ last.val = 201
    /\ hist.calls = <<>>
    /\ cpu.pc = 49155
    /\ cpu.sp = hist.cpu0.sp
    /\ last.pre.sp = (hist.cpu0.sp + 65534) % 65536

\* JR NZ, JR Z, JR NC, JR C and JP NZ, JP Z, JP NC, JP C
C14_JumpsRelative == {32, 40, 48, 56}

C14_JumpsAbsolute == {194, 202, 210, 218}

\* the offset byte of JR read as a signed number
C14_Signed(n) == IF n >= 128 THEN n - 256 ELSE n

\* PC and cycles a conditional jump at p is due to leave
C14_Due(op, p, f, m) ==
    IF op \in C14_JumpsAbsolute
    THEN IF C10_CondHolds(op, f)
         THEN [pc |-> Memory_read_byte(m, (p + 1) % 65536).val
                        + 256 * Memory_read_byte(m, (p + 2) % 65536).val,
               cycles |-> 16]
         ELSE [pc |-> (p + 3) % 65536, cycles |-> 12]
    ELSE IF C10_CondHolds(op, f)
         THEN [pc |-> (p + 2 + 65536
                         + C14_Signed(Memory_read_byte(m, (p + 1) % 65536).val))
                        % 65536,
               cycles |-> 12]
         ELSE [pc |-> (p + 2) % 65536, cycles |-> 8]

\* C14: JP cc,nn and JR cc,n jump when the condition holds (16 and 12
\* cycles) and fall through to the next instruction otherwise (12 and 8
\* cycles); nothing but PC changes: no flag, register, SP or memory byte.
C14_ConditionalJumps ==
    [][(/\ last'.op = "execute"
        /\ last'.val \in C14_JumpsRelative \cup C14_JumpsAbsolute) =>
           LET due == C14_Due(last'.val, cpu.pc, cpu.f, memory) IN
           /\ fault' = "none"
           /\ last'.cycles = due.cycles
           /\ cpu' = [cpu EXCEPT !.pc = due.pc]
           /\ memory' = memory]_vars

\* JR Z,+5 taken at 0xFFFE: PC wraps to 0x0005 in 12 cycles
C14_Witness ==
    /\ last.op = "execute" /\ fault = "none"
    /\ last.val = 40
    /\ last.pre.f.z
    /\ last.pre.pc = 65534
    /\ cpu.pc = 5
    /\ last.cycles = 12

\* C15: RETI pops the return address into PC (low byte at SP, high byte at
\* SP + 1, SP increased by 2), sets the interrupt-master-enable flag, and
\* takes 16 cycles.
C15_RetiEnablesInterrupts ==
    (last.op = "execute" /\ last.val = 217) =>
        /\ fault = "none"
        /\ last.cycles = 16
        /\ cpu.pc = Memory_read_byte(memory, last.pre.sp).val
                    + 256 * Memory_read_byte(memory, (last.pre.sp + 1) % 65536).val
        /\ cpu.sp = (last.pre.sp + 2) % 65536
        /\ cpu.interrupts_enabled

RECURSIVE C16_StepTimes(_, _)
\* the machine after exactly k steps
C16_StepTimes(g, k) ==
    IF k = 0 THEN g ELSE GameBoy_step(C16_StepTimes(g, k - 1))

\* C16: HALT sets halted in 4 cycles; run(n) steps at most n times and never
\* once halted is set, so from the step that executes HALT onward no CPU
\* register, memory byte, timer counter or IF bit changes in that run or in
\* any later run.
C16_HaltStopsRun ==
    [][last'.op = "run" =>
          LET g0 == Machine(cpu, memory)
              k  == last'.ret
          IN  /\ fault' = "none"
              /\ k <= last'.addr
              /\ \A j \in 0 .. k - 1 : ~C16_StepTimes(g0, j).cpu.halted
              /\ k < last'.addr => cpu'.halted
              /\ cpu' = C16_StepTimes(g0, k).cpu
              /\ memory' = C16_StepTimes(g0, k).mem
              /\ cpu.halted => k = 0 /\ cpu' = cpu /\ memory' = memory
              /\ (~cpu.halted /\ cpu'.halted) =>
                     last'.val = 118 /\ last'.cycles = 4
              /\ (k > 0 /\ last'.val = 118) => cpu'.halted]_vars

\* a run of 3 called on a machine that an earlier run left halted after two
\* steps, with instructions still ahead of PC
C16_Witness ==
    /\ last.op = "run" /\ fault = "none"
    /\ last.pre.halted
    /\ last.addr = 3
    /\ last.ret = 0
    /\ hist.steps = 2
    /\ Memory_read_byte(memory, cpu.pc).val = 60
    /\ IFByte = 4

\* the loaded cartridge
Cart == memory.cartridge[1]

IsMbc1(c) == c.header.cartridge_type \in {"Mbc1", "Mbc1Ram", "Mbc1RamBattery"}

\* a write into ROM space of an MBC1 cartridge has just returned
C17_RomSpaceWrite ==
    /\ last'.op = "write" /\ last'.addr <= 32767
    /\ IsMbc1(Cart)

C17_LowAddrs == {0, 256, 327, 8192, 16383}

\* C17: for an MBC1 cartridge no write to 0x0000-0x7FFF changes a ROM byte
\* or an external-RAM byte; it changes only the latch its address range
\* selects, so every read in 0x0000-0x3FFF returns what it returned before.
C17_RomSpaceWritesKeepStorage ==
    [][C17_RomSpaceWrite =>
          LET c1 == memory'.cartridge[1] IN
          /\ fault' = "none"
          /\ c1.rom = Cart.rom /\ c1.ram = Cart.ram /\ c1.ram_len = Cart.ram_len
          /\ c1.header = Cart.header
          /\ memory'.data = memory.data /\ memory'.timer = memory.timer
          /\ last'.addr > 8191  => c1.ram_enabled = Cart.ram_enabled
          /\ (last'.addr < 8192 \/ last'.addr > 24575) => c1.rom_bank = Cart.rom_bank
          /\ (last'.addr < 16384 \/ last'.addr > 24575) => c1.ram_bank = Cart.ram_bank
          /\ (last'.addr >= 16384 /\ last'.addr <= 24575) =>
                 (c1.rom_bank = Cart.rom_bank \/ c1.ram_bank = Cart.ram_bank)
          /\ last'.addr < 24576 => c1.banking_mode = Cart.banking_mode
          /\ \A a \in C17_LowAddrs :
                 Memory_read_byte(memory', a) = Memory_read_byte(memory, a)]_vars

\* external RAM holds a stored byte and the bank latch was just written
C17_Witness ==
    /\ last.op = "write" /\ last.addr = 8192 /\ last.val = 5
    /\ fault = "none"
    /\ IsMbc1(Cart)
    /\ VecGet(Cart.ram, 0) = 5
    /\ Cart.rom_bank = 5
    /\ Cart.ram_enabled

\* a write of an MBC1 cartridge's latch in first .. final has just returned
MbcWrote(first, final) ==
    /\ last'.op = "write"
    /\ last'.addr >= first /\ last'.addr <= final
    /\ IsMbc1(Cart)

\* the low five bits a ROM-bank write selects: 0 is replaced by 1
C18_Low(v) == IF v % 32 = 0 THEN 1 ELSE v % 32

\* C18: a write of v to 0x2000-0x3FFF sets rom_bank to
\* (rom_bank & 0x60) | (v & 0x1F), a low-5 value of 0 replaced by 1; bits 5-6
\* set by an earlier write to 0x4000-0x5FFF are preserved (upper bits 01,
\* then 0x05 written here, give bank 0x25).
C18_LowBankBitsKeepUpper ==
    [][MbcWrote(8192, 16383) =>
          memory'.cartridge[1].rom_bank =
              BitOr(BitAnd(Cart.rom_bank, 96), C18_Low(last'.val))]_vars

\* C19: a write of v to 0x4000-0x5FFF sets, in mode 0, rom_bank to
\* (rom_bank & 0x1F) | ((v & 3) << 5) and leaves ram_bank, and in mode 1 sets
\* ram_bank to v & 3 and leaves rom_bank; banking_mode changes only on a
\* write to 0x6000-0x7FFF, which sets it to v & 1 and changes no other latch.
C19_UpperBitsAndMode ==
    [][LET c1 == memory'.cartridge[1] IN
       /\ (MbcWrote(16384, 24575) /\ Cart.banking_mode = 0) =>
              /\ c1.rom_bank = (Cart.rom_bank % 32) + 32 * (last'.val % 4)
              /\ c1.ram_bank = Cart.ram_bank
       /\ (MbcWrote(16384, 24575) /\ Cart.banking_mode = 1) =>
              /\ c1.ram_bank = last'.val % 4
              /\ c1.rom_bank = Cart.rom_bank
       /\ MbcWrote(24576, 32767) =>
              /\ c1.banking_mode = last'.val % 2
              /\ c1.rom_bank = Cart.rom_bank
              /\ c1.ram_bank = Cart.ram_bank
              /\ c1.ram_enabled = Cart.ram_enabled
       /\ c1.banking_mode # Cart.banking_mode => MbcWrote(24576, 32767)]_vars

\* in mode 1 a write of 2 to 0x4000 selected RAM bank 2 and kept ROM bank 5
C19_Witness ==
    /\ last.op = "write" /\ last.addr = 16384 /\ last.val = 2
    /\ fault = "none"
    /\ IsMbc1(Cart)
    /\ Cart.banking_mode = 1
    /\ Cart.ram_bank = 2
    /\ Cart.rom_bank = 5

InRamWindow(addr) == addr >= 40960 /\ addr <= 49151

\* the index into ram that an access at addr selects
RamOffset(c, addr) == c.ram_bank * 8192 + (addr - 40960)

\* external RAM cannot be accessed: disabled, or the cartridge has none
RamClosed(c) == ~c.ram_enabled \/ c.ram_len = 0

\* C21: RAM is disabled after load; while RAM is disabled or absent every
\* read of 0xA000-0xBFFF returns 0xFF and every write there leaves the RAM
\* contents unchanged; a write to 0x0000-0x1FFF enables RAM exactly when its
\* low nibble is 0xA and never touches the contents, so bytes stored before
\* a disable are read back after a later enable.
C21_RamGating ==
    /\ ~Cart.ram_enabled
    /\ [][LET c1 == memory'.cartridge[1] IN
          /\ fault' = "none"
          /\ (last'.op = "read" /\ InRamWindow(last'.addr)) =>
                 last'.ret = IF RamClosed(Cart)
                                \/ RamOffset(Cart, last'.addr) >= Cart.ram_len
                             THEN 255
                             ELSE VecGet(Cart.ram, RamOffset(Cart, last'.addr))
          /\ (last'.op = "write" /\ InRamWindow(last'.addr) /\ RamClosed(Cart)) =>
                 c1 = Cart
          /\ (last'.op = "write" /\ last'.addr <= 8191) =>
                 /\ c1.ram_enabled = (last'.val % 16 = 10)
                 /\ c1.ram = Cart.ram]_vars

\* a read of 0xBFFF returns 0xFF while the disabled RAM holds a byte stored
\* there earlier
C21_Witness ==
    /\ last.op = "read" /\ last.addr = 49151 /\ last.ret = 255
    /\ fault = "none"
    /\ ~Cart.ram_enabled
    /\ Cart.ram_len = 32768
    /\ Cart.ram_bank = 0
    /\ VecGet(Cart.ram, 8191) = 1

\* an access to the external-RAM window of a cartridge whose RAM is enabled
C22_RamAccess(op) ==
    /\ last'.op = op /\ InRamWindow(last'.addr)
    /\ IsMbc1(Cart) /\ Cart.ram_enabled

\* C22: on an MBC1 cartridge with RAM enabled, a write of v at a in
\* 0xA000-0xBFFF whose offset ram_bank * 0x2000 + (a - 0xA000) is inside the
\* RAM stores v at that offset and nowhere else, and a read of a returns the
\* byte at that offset, so the byte is kept while another bank is selected
\* and read again after switching back; an access whose offset is outside
\* the RAM reads 0xFF and writes nothing.
C22_BankedRamRoundTrip ==
    [][LET c1  == memory'.cartridge[1]
           off == RamOffset(Cart, last'.addr)
       IN  /\ (C22_RamAccess("write") /\ off < Cart.ram_len) =>
                  /\ c1 = [Cart EXCEPT !.ram = c1.ram]
                  /\ VecGet(c1.ram, off) = last'.val
                  /\ \A b \in 0 .. 3, a \in RamReadAddrs :
                         b * 8192 + (a - 40960) # off =>
                             VecGet(c1.ram, b * 8192 + (a - 40960))
                                 = VecGet(Cart.ram, b * 8192 + (a - 40960))
                  /\ Memory_read_byte(memory', last'.addr).val = last'.val
           /\ (C22_RamAccess("write") /\ off >= Cart.ram_len) => c1 = Cart
           /\ (C22_RamAccess("read") /\ off < Cart.ram_len) =>
                  last'.ret = VecGet(Cart.ram, off)
           /\ (C22_RamAccess("read") /\ off >= Cart.ram_len) =>
                  last'.ret = 255]_vars

\* 0x0A stored at 0xA000 in bank 0 is read back in the seventh operation,
\* after 0x01 was stored at 0xA000 in bank 1
C22_Witness ==
    /\ last.op = "read" /\ last.addr = 40960 /\ last.ret = 10
    /\ fault = "none"
    /\ Cart.ram_enabled /\ Cart.ram_bank = 0
    /\ VecGet(Cart.ram, 8192) = 1

\* the regions whose bytes the bus keeps in its own array
C23_Backing(a, loaded) ==
    \/ a >= 32768 /\ a <= 40959
    \/ a >= 49152 /\ ~(a >= DIV /\ a <= TAC)
    \/ ~loaded /\ (a <= 32767 \/ (a >= 40960 /\ a <= 49151))

\* C23: for every address a in a backing region and every byte v,
\* write_byte(a, v) followed by read_byte(a) returns v and changes the value
\* read at no other address (the echo region is its own storage); with no
\* cartridge loaded the same holds for 0x0000-0x7FFF and 0xA000-0xBFFF.
C23_BusRoundTrip ==
    [][(last'.op = "write"
        /\ C23_Backing(last'.addr, memory.cartridge # <<>>)) =>
           /\ fault' = "none"
           /\ Memory_read_byte(memory', last'.addr)
                  = [fault |-> "none", val |-> last'.val]
           /\ \A b \in BusAddrs \ {last'.addr} :
                  Memory_read_byte(memory', b) = Memory_read_byte(memory, b)]_vars

\* the byte written at 0xE000 is read back there and 0xC000 still reads 0
C23_Witness ==
    /\ last.op = "read" /\ last.addr = 57344 /\ last.ret = 66
    /\ fault = "none"
    /\ Memory_read_byte(memory, 49152).val = 0

\* 0xFF04-0xFF07
InTimerWindow(a) == a >= DIV /\ a <= TAC

\* C24: reads and writes at exactly 0xFF04-0xFF07 go to the timer and never
\* read or modify the backing array; 0xFF03 and 0xFF08 are ordinary backing
\* bytes: a value written there is read back and no write to a timer
\* register changes it.
C24_TimerWindowRouting ==
    [][/\ (last'.op = "write" /\ InTimerWindow(last'.addr)) =>
              /\ memory'.data = memory.data
              /\ memory'.cartridge = memory.cartridge
              /\ fault' = write_register(memory.timer, last'.addr, last'.val).fault
              /\ fault' = "none" =>
                     memory'.timer =
                         write_register(memory.timer, last'.addr, last'.val).timer
              /\ \A b \in {65283, 65288} :
                     Memory_read_byte(memory', b) = Memory_read_byte(memory, b)
       /\ (last'.op = "read" /\ InTimerWindow(last'.addr)) =>
              [fault |-> fault', val |-> last'.ret]
                  = read_register(memory.timer, last'.addr)
       /\ (last'.op = "write" /\ last'.addr \in {65283, 65288}) =>
              /\ fault' = "none"
              /\ memory'.timer = memory.timer
              /\ Memory_read_byte(memory', last'.addr)
                     = [fault |-> "none", val |-> last'.val]]_vars

\* TAC was written after 0xFF03: 0xFF03 still reads its byte, TAC reads the
\* timer's value and the array holds nothing at 0xFF07
C24_Witness ==
    /\ last.op = "write" /\ last.addr = TAC /\ last.val = 10
    /\ fault = "none"
    /\ Memory_read_byte(memory, 65283).val = 66
    /\ Memory_read_byte(memory, TAC).val = 10
    /\ VecGet(memory.data, TAC) = 0

\* the file handed to the last load_rom
C25_File == hist.file[1]

\* the header is rejected: short file, or a size byte outside its table
C25_Bad(rom) == rom.len < 336 \/ rom.romCode > 8 \/ rom.ramCode > 5

C25_RamSizes == <<0, 2048, 8192, 32768, 131072, 65536>>

RECURSIVE C25_Shl(_, _)
\* x << n
C25_Shl(x, n) == IF n = 0 THEN x ELSE C25_Shl(2 * x, n - 1)

\* C25: from_rom fails, and load yields no cartridge, when the image is
\* shorter than 0x0150 bytes, byte 0x0148 > 0x08 or byte 0x0149 > 0x05;
\* otherwise it succeeds with rom_size = (2 << byte 0x0148) * 16384,
\* ram_size = 0, 2048, 8192, 32768, 131072, 65536 for byte 0x0149 = 0..5,
\* and the cartridge starts with rom_bank 1, ram_bank 0, RAM disabled and
\* banking_mode 0.
C25_HeaderValidation ==
    last.op = "load" =>
        /\ fault = "none"
        /\ C25_Bad(C25_File) =>
               /\ ~CartridgeHeader_from_rom(C25_File).ok
               /\ last.ret = 0
               /\ memory.cartridge = <<>>
        /\ ~C25_Bad(C25_File) =>
               /\ CartridgeHeader_from_rom(C25_File).ok
               /\ last.ret = 1
               /\ memory.cartridge # <<>>
               /\ Cart.rom = C25_File
               /\ Cart.header.rom_size = C25_Shl(2, C25_File.romCode) * 16384
               /\ Cart.header.ram_size = C25_RamSizes[C25_File.ramCode + 1]
               /\ Cart.ram_len = Cart.header.ram_size
               /\ Cart.rom_bank = 1 /\ Cart.ram_bank = 0
               /\ ~Cart.ram_enabled /\ Cart.banking_mode = 0

\* a 336-byte file with the largest valid size bytes is accepted after a
\* rejected one
C25_Witness ==
    /\ last.op = "load" /\ last.ret = 1
    /\ C25_File = RomImage(336, 252, 8, 5)
    /\ Cart.header.rom_size = 8388608
    /\ Cart.header.ram_size = 65536

\* bit i of byte b is set
C26_BitSet(b, i) == (b \div C25_Shl(1, i)) % 2 = 1

\* C26: in every reachable CPU state the byte form of the flags (to_u8, the
\* low byte of af(), the byte PUSH AF stores) has bits 0-3 clear and bits 7,
\* 6, 5, 4 equal to Z, N, H, C; set_af and POP AF of a value whose low
\* nibble is non-zero discard those four bits.
C26_LowNibbleOfFIsZero ==
    /\ to_u8(cpu.f) % 16 = 0
    /\ C26_BitSet(to_u8(cpu.f), 7) = cpu.f.z
    /\ C26_BitSet(to_u8(cpu.f), 6) = cpu.f.n
    /\ C26_BitSet(to_u8(cpu.f), 5) = cpu.f.h
    /\ C26_BitSet(to_u8(cpu.f), 4) = cpu.f.c
    /\ af(cpu) = 256 * cpu.a + to_u8(cpu.f)
    /\ \A v \in StackValues : af(set_af(cpu, v)) = v - (v % 16)
    /\ (last.op \in {"execute", "step"} /\ fault = "none" /\ last.val = 245) =>
           /\ Memory_read_byte(memory, U16(last.pre.sp - 2)).val = to_u8(last.pre.f)
           /\ Memory_read_byte(memory, U16(last.pre.sp - 2)).val % 16 = 0
    /\ (last.op \in {"execute", "step"} /\ fault = "none" /\ last.val = 241) =>
           LET low == Memory_read_byte(memory, last.pre.sp).val IN
           /\ to_u8(cpu.f) = low - (low % 16)
           /\ cpu.a = Memory_read_byte(memory, U16(last.pre.sp + 1)).val

\* POP AF of a word whose low byte is 0xFF left F = 0xF0
C26_Witness ==
    /\ last.op \in {"execute", "step"} /\ fault = "none" /\ last.val = 241
    /\ Memory_read_byte(memory, last.pre.sp).val = 255
    /\ to_u8(cpu.f) = 240
    /\ af(cpu) % 16 = 0

\* C27: after any sequence of writes to an MBC1 cartridge, from the state
\* Cartridge::load creates, the low five bits of rom_bank are never 0 (so
\* rom_bank is never 0x00, 0x20, 0x40 or 0x60), rom_bank <= 0x7F, ram_bank
\* is in 0..3 and banking_mode is 0 or 1.
C27_LatchInvariant ==
    IsMbc1(Cart) =>
        /\ Cart.rom_bank % 32 # 0
        /\ Cart.rom_bank \notin {0, 32, 64, 96}
        /\ Cart.rom_bank >= 1 /\ Cart.rom_bank <= 127
        /\ Cart.ram_bank \in 0 .. 3
        /\ Cart.banking_mode \in {0, 1}

\* 0x20 written to the ROM-bank latch, then upper bits 11: the bank is 0x61
C27_Witness ==
    /\ IsMbc1(Cart)
    /\ last.op = "write" /\ last.addr = 16384 /\ last.val = 255
    /\ Cart.rom_bank = 97
    /\ hist.ops = 2

\* C28: within step the timer is ticked once, after the instruction, with
\* that instruction's cycle count: an instruction that reads 0xFF04 sees DIV
\* without its own cycles, after an instruction that writes 0xFF04 the
\* counter equals that instruction's cycle count, and the counter is the sum
\* of the cycle counts returned since the last such write (since the start
\* when there was none) modulo 2^16.
C28_TimerAtInstructionBoundaries ==
    /\ memory.timer.div_counter = hist.n % 65536
    /\ [][(last'.op = "step" /\ fault' = "none") =>
             /\ memory'.timer.div_counter =
                    ((IF DIV \in last'.wrote THEN 0 ELSE memory.timer.div_counter)
                        + last'.cycles) % 65536
             /\ DIV \in last'.wrote =>
                    memory'.timer.div_counter = last'.cycles
             /\ (last'.val = 126 /\ hl(cpu) = DIV) =>
                    cpu'.a = (memory.timer.div_counter \div 256) % 256
             /\ memory'.timer.div_counter = hist'.n % 65536]_vars

\* LD A,(HL) at HL = 0xFF04 run with 248 cycles on the counter: A is 0 and
\* DIV reads 1 after the step
C28_Witness ==
    /\ last.op = "step" /\ fault = "none"
    /\ last.val = 126 /\ hl(last.pre) = DIV
    /\ last.preTimer.div_counter = 248
    /\ cpu.a = 0
    /\ read_register(memory.timer, DIV).val = 1

\* CALL NZ, CALL Z, CALL NC, CALL C and RET NZ, RET Z, RET NC, RET C
C29_Calls == {196, 204, 212, 220}

C29_Rets == {192, 200, 208, 216}

\* the 16-bit word at a: low byte at a, high byte at a + 1
C29_Word(m, a) ==
    Memory_read_byte(m, a % 65536).val
        + 256 * Memory_read_byte(m, (a + 1) % 65536).val

\* C29: CALL cc,nn at p, when the condition holds, pushes p + 3, sets
\* PC = nn and takes 24 cycles, and otherwise sets PC = p + 3 in 12 cycles
\* leaving SP and memory unchanged; RET cc at p, when the condition holds,
\* pops PC, adds 2 to SP and takes 20 cycles, and otherwise sets PC = p + 1
\* in 8 cycles leaving SP unchanged.
C29_ConditionalCallRet ==
    [][last'.op = "execute" =>
          LET op   == last'.val
              p    == cpu.pc
              next == (p + 3) % 65536
              sp1  == (cpu.sp + 65535) % 65536
              sp2  == (cpu.sp + 65534) % 65536
          IN
          /\ (op \in C29_Calls /\ C10_CondHolds(op, cpu.f)) =>
                 /\ fault' = "none"
                 /\ last'.cycles = 24
                 /\ cpu' = [cpu EXCEPT !.pc = C29_Word(memory, p + 1),
                                       !.sp = sp2]
                 /\ memory' = [memory EXCEPT !.data =
                                  VecSet(VecSet(memory.data, sp1, next \div 256),
                                         sp2, next % 256)]
                 /\ C29_Word(memory', cpu'.sp) = next
          /\ (op \in C29_Calls /\ ~C10_CondHolds(op, cpu.f)) =>
                 /\ fault' = "none"
                 /\ last'.cycles = 12
                 /\ cpu' = [cpu EXCEPT !.pc = next]
                 /\ memory' = memory
          /\ (op \in C29_Rets /\ C10_CondHolds(op, cpu.f)) =>
                 /\ fault' = "none"
                 /\ last'.cycles = 20
                 /\ cpu' = [cpu EXCEPT !.pc = C29_Word(memory, cpu.sp),
                                       !.sp = (cpu.sp + 2) % 65536]
                 /\ memory' = memory
          /\ (op \in C29_Rets /\ ~C10_CondHolds(op, cpu.f)) =>
                 /\ fault' = "none"
                 /\ last'.cycles = 8
                 /\ cpu' = [cpu EXCEPT !.pc = (p + 1) % 65536]
                 /\ memory' = memory]_vars

\* CALL NC,0xC005 taken at 0x0100: 0x0103 is on the stack at 0xFFFC
C29_Witness ==
    /\ last.op = "execute" /\ fault = "none"
    /\ last.val = 212 /\ ~last.pre.f.c
    /\ last.pre.pc = 256
    /\ last.cycles = 24
    /\ cpu.pc = 49157 /\ cpu.sp = 65532
    /\ C29_Word(memory, 65532) = 259

\* the correction DAA is due to apply to A under flags f
C30_Correction(a, f) ==
    (IF f.h \/ (~f.n /\ (a % 16) > 9) THEN 6 ELSE 0)
        + (IF f.c \/ (~f.n /\ a > 153) THEN 96 ELSE 0)

\* the number a packed-BCD byte stands for
C30_Decimal(b) == 10 * (b \div 16) + (b % 16)

\* C30: for every A and every flag combination DAA corrects by 0x06 if H is
\* set or (N clear and low nibble > 9), plus 0x60 if C is set or (N clear
\* and A > 0x99), which sets C (else C is unchanged); A becomes
\* A + correction (N clear) or A - correction (N set) mod 256; Z = (A == 0),
\* H = 0, N unchanged.  ADD of two packed-BCD bytes followed by DAA leaves
\* the packed-BCD sum in A.
C30_DecimalAdjust ==
    (last.op = "execute" /\ last.val = 39) =>
        LET a0   == last.pre.a
            f0   == last.pre.f
            corr == C30_Correction(a0, f0)
            due  == IF f0.n THEN (a0 + 256 - corr) % 256
                    ELSE (a0 + corr) % 256
        IN  /\ fault = "none"
            /\ cpu.a = due
            /\ cpu.f.c = (IF corr >= 96 THEN TRUE ELSE f0.c)
            /\ cpu.f.z = (due = 0)
            /\ ~cpu.f.h
            /\ cpu.f.n = f0.n
            /\ cpu = [last.pre EXCEPT !.a = cpu.a, !.f = cpu.f,
                                      !.pc = (last.pre.pc + 1) % 65536]
            /\ hist.steps = 2 =>
                   LET sum == C30_Decimal(hist.cpu0.a) + C30_Decimal(hist.cpu0.b) IN
                   /\ C30_Decimal(cpu.a) = sum % 100
                   /\ cpu.a \in BcdBytes
                   /\ cpu.f.c = (sum >= 100)

\* 0x09 + 0x08 adjusted to 0x17
C30_Witness ==
    /\ last.op = "execute" /\ last.val = 39 /\ fault = "none"
    /\ hist.steps = 2
    /\ hist.cpu0.a = 9 /\ hist.cpu0.b = 8
    /\ last.pre.a = 17 /\ last.pre.f.h
    /\ cpu.a = 23

\* the CPU with 16-bit pair j (0 BC, 1 DE, 2 HL, 3 SP) holding w
C31_WithPair(c, j, w) ==
    CASE j = 0 -> [c EXCEPT !.b = w \div 256, !.c = w % 256]
      [] j = 1 -> [c EXCEPT !.d = w \div 256, !.e = w % 256]
      [] j = 2 -> [c EXCEPT !.h = w \div 256, !.l = w % 256]
      [] OTHER -> [c EXCEPT !.sp = w]

C31_Pair(c, j) ==
    CASE j = 0 -> 256 * c.b + c.c [] j = 1 -> 256 * c.d + c.e
      [] j = 2 -> 256 * c.h + c.l [] OTHER -> c.sp

\* C31: INC of an 8-bit register or (HL) sets it to (x + 1) mod 256 with
\* Z = (result == 0), N = 0, H = ((x & 0x0F) == 0x0F); DEC sets it to
\* (x - 1) mod 256 with Z = (result == 0), N = 1, H = ((x & 0x0F) == 0);
\* both leave C unchanged.  INC/DEC of BC, DE, HL and SP add or subtract 1
\* modulo 2^16 and change no flag.
C31_IncDec ==
    [][(last'.op = "execute" /\ last'.val \in IncDecOpcodes) =>
          LET op   == last'.val
              i    == (op \div 8) % 8
              j    == op \div 16
              inc  == op % 16 \in {3, 4, 12}
              x    == IF i = 6 THEN Memory_read_byte(memory, hl(cpu)).val
                      ELSE cpu[OperandReg(i)]
              out  == IF inc THEN (x + 1) % 256 ELSE (x + 255) % 256
              f1   == [z |-> out = 0, n |-> ~inc,
                       h |-> IF inc THEN x % 16 = 15 ELSE x % 16 = 0,
                       c |-> cpu.f.c]
              next == [cpu EXCEPT !.pc = (cpu.pc + 1) % 65536]
          IN  /\ fault' = "none"
              /\ (op % 8 \in {4, 5} /\ i # 6) =>
                     /\ cpu' = [next EXCEPT ![OperandReg(i)] = out, !.f = f1]
                     /\ memory' = memory
              /\ (op % 8 \in {4, 5} /\ i = 6) =>
                     /\ cpu' = [next EXCEPT !.f = f1]
                     /\ memory' = [memory EXCEPT !.data =
                                      VecSet(memory.data, hl(cpu), out)]
              /\ op % 16 = 3 =>
                     /\ cpu' = C31_WithPair(next, j, (C31_Pair(cpu, j) + 1) % 65536)
                     /\ memory' = memory
              /\ op % 16 = 11 =>
                     /\ cpu' = C31_WithPair(next, j, (C31_Pair(cpu, j) + 65535) % 65536)
                     /\ memory' = memory]_vars

\* DEC (HL) of 0x10 stored 0x0F at 0x1010 with N and H set and C as before
C31_Witness ==
    /\ last.op = "execute" /\ fault = "none"
    /\ last.val = 53
    /\ hl(cpu) = 4112
    /\ Memory_read_byte(memory, 4112).val = 15
    /\ cpu.f.h /\ cpu.f.n /\ ~cpu.f.z
    /\ cpu.f.c = last.pre.f.c

\* bit b of the byte v
C32_Bit(v, b) == (v \div (2 ^ b)) % 2

\* C32: for a CB opcode in 0x40-0xFF, bits 3-5 are the bit index b and bits
\* 0-2 the operand (B, C, D, E, H, L, (HL), A).  BIT sets Z to the complement
\* of bit b, N = 0, H = 1 and leaves C and the operand unchanged; RES and
\* SET change exactly bit b of the operand and no flag.  The cost is 8
\* cycles for a register, 12 for BIT on (HL), 16 for RES/SET on (HL).
C32_BitOps ==
    [][(last'.op = "execute" /\ last'.val = 203
            /\ Memory_read_byte(memory, (cpu.pc + 1) % 65536).val \in BitOpcodes) =>
          LET op   == Memory_read_byte(memory, (cpu.pc + 1) % 65536).val
              b    == (op \div 8) % 8
              i    == op % 8
              x    == IF i = 6 THEN Memory_read_byte(memory, hl(cpu)).val
                      ELSE cpu[OperandReg(i)]
              out  == IF op < 128 THEN x
                      ELSE IF op < 192 THEN x - C32_Bit(x, b) * 2 ^ b
                      ELSE x + (1 - C32_Bit(x, b)) * 2 ^ b
              f1   == IF op < 128
                      THEN [z |-> C32_Bit(x, b) = 0, n |-> FALSE, h |-> TRUE,
                            c |-> cpu.f.c]
                      ELSE cpu.f
              next == [cpu EXCEPT !.pc = (cpu.pc + 2) % 65536, !.f = f1]
          IN  /\ fault' = "none"
              /\ i # 6 =>
                     /\ cpu' = [next EXCEPT ![OperandReg(i)] = out]
                     /\ memory' = memory
                     /\ last'.cycles = 8
              /\ i = 6 =>
                     /\ cpu' = next
                     /\ memory' = [memory EXCEPT !.data =
                                      VecSet(memory.data, hl(cpu), out)]
                     /\ last'.cycles = IF op < 128 THEN 12 ELSE 16]_vars

\* RES 5,(HL) (0xCB 0xAE) on 0xFF at 0xFFFF left 0xDF there in 16 cycles
C32_Witness ==
    /\ last.op = "execute" /\ fault = "none"
    /\ last.val = 203
    /\ Memory_read_byte(memory, 49153).val = 174
    /\ last.pre.a = 255
    /\ Memory_read_byte(memory, 65535).val = 223
    /\ cpu.a = 255
    /\ last.cycles = 16

\* the byte after the rotate or shift of row k of the CB table (0 RLC,
\* 1 RRC, 4 SLA, 6 SWAP, 7 SRL) and the bit it moves out
C33_Result(k, b) ==
    CASE k = 0 -> ((2 * b) % 256) + (b \div 128)
      [] k = 1 -> (b \div 2) + 128 * (b % 2)
      [] k = 4 -> (2 * b) % 256
      [] k = 6 -> 16 * (b % 16) + (b \div 16)
      [] OTHER -> b \div 2

C33_Out(k, b) ==
    CASE k \in {0, 4} -> b >= 128
      [] k = 6 -> FALSE
      [] OTHER -> b % 2 = 1

\* the operand the program at 0xC000 works on, as it is now
C33_Operand ==
    LET i == Memory_read_byte(memory, 49153).val % 8
    IN  IF i = 6 THEN Memory_read_byte(memory, hl(cpu)).val
        ELSE cpu[OperandReg(i)]

\* C33: for every byte b and every operand, RLC then RRC gives b, SWAP twice
\* gives b, and SLA then SRL gives b with bit 7 cleared; after each of these
\* instructions Z = (result == 0), N = 0, H = 0 and C is the bit shifted
\* out (SWAP clears C).
C33_RoundTrips ==
    (last.op = "execute" /\ hist.steps \in {1, 2}) =>
        LET k1 == Memory_read_byte(memory, 49153).val \div 8
            k2 == Memory_read_byte(memory, 49155).val \div 8
            b  == hist.cpu0.a
            r1 == C33_Result(k1, b)
            r2 == C33_Result(k2, r1)
        IN  /\ fault = "none"
            /\ hist.steps = 1 =>
                   /\ C33_Operand = r1
                   /\ cpu.f = [z |-> r1 = 0, n |-> FALSE, h |-> FALSE,
                               c |-> C33_Out(k1, b)]
            /\ hist.steps = 2 =>
                   /\ C33_Operand = r2
                   /\ cpu.f = [z |-> r2 = 0, n |-> FALSE, h |-> FALSE,
                               c |-> C33_Out(k2, r1)]
                   /\ C33_Operand = IF k1 = 4 THEN b % 128 ELSE b

\* SLA (HL) then SRL (HL) on 0xC5 left 0x45 at (HL); SRL moved bit 0 of
\* 0x8A out, so C is clear
C33_Witness ==
    /\ last.op = "execute" /\ fault = "none" /\ hist.steps = 2
    /\ Memory_read_byte(memory, 49153).val = 38
    /\ Memory_read_byte(memory, 49155).val = 62
    /\ hist.cpu0.a = 197
    /\ Memory_read_byte(memory, hl(cpu)).val = 69
    /\ ~cpu.f.c /\ ~cpu.f.z

\* the CB-prefixed rotate of A with second byte op, run from the state the
\* last instruction started in
C34_Prefixed(op) ==
    execute(last.pre, OperandMemory(<<203, op>>, last.pre.a))

\* C34: RLCA, RRCA, RLA and RRA (4 cycles, 1 byte) leave the same A, N, H
\* and C as the CB-prefixed RLC A, RRC A, RL A and RR A (8 cycles, 2 bytes)
\* run from the same state; the only difference is that the non-prefixed
\* forms leave Z = 0 where the prefixed ones leave Z = (result == 0).
C34_RotateA ==
    (last.op = "execute" /\ last.val \in RotateAOpcodes) =>
        LET y == C34_Prefixed(last.val)
        IN  /\ fault = "none" /\ y.fault = "none"
            /\ cpu = [y.cpu EXCEPT !.f.z = FALSE,
                                   !.pc = (last.pre.pc + 1) % 65536]
            /\ y.cpu.pc = (last.pre.pc + 2) % 65536
            /\ y.cpu.f.z = (y.cpu.a = 0)
            /\ last.cycles = 4
            /\ y.cyc = 8

\* RLA on 0x80 with C clear left A = 0 and C set with Z clear, where RL A
\* sets Z
C34_Witness ==
    /\ last.op = "execute" /\ fault = "none"
    /\ last.val = 23
    /\ last.pre.a = 128 /\ ~last.pre.f.c
    /\ cpu.a = 0 /\ cpu.f.c /\ ~cpu.f.z
    /\ C34_Prefixed(23).cpu.f.z

\* C35: LD HL,SP+n for every SP and offset byte n: HL = (SP + sign-extended
\* n) mod 2^16, SP unchanged, Z = 0, N = 0, H = ((SP & 0x0F) + (n & 0x0F) >
\* 0x0F) and C = ((SP & 0xFF) + n > 0xFF) with n the raw byte; 12 cycles, PC
\* advanced by 2.
C35_LdHlSp ==
    (last.op = "execute" /\ last.val = 248) =>
        LET sp     == last.pre.sp
            n      == Memory_read_byte(memory, (last.pre.pc + 1) % 65536).val
            signed == IF n >= 128 THEN n - 256 ELSE n
            w      == (sp + signed + 65536) % 65536
        IN  /\ fault = "none"
            /\ cpu = [last.pre EXCEPT
                        !.h = w \div 256, !.l = w % 256,
                        !.pc = (last.pre.pc + 2) % 65536,
                        !.f = [z |-> FALSE, n |-> FALSE,
                               h |-> (sp % 16) + (n % 16) > 15,
                               c |-> (sp % 256) + n > 255]]
            /\ last.cycles = 12

\* SP = 0x0001 with n = 0xFF (-1): HL = 0x0000 while the byte addition
\* 0x01 + 0xFF carries out of bit 3 and bit 7
C35_Witness ==
    /\ last.op = "execute" /\ last.val = 248 /\ fault = "none"
    /\ last.pre.sp = 1 /\ cpu.sp = 1
    /\ Memory_read_byte(memory, 49153).val = 255
    /\ hl(cpu) = 0
    /\ cpu.f.h /\ cpu.f.c /\ ~cpu.f.z /\ ~cpu.f.n

\* C36: RST (0xC7, 0xCF, ..., 0xFF) at address p pushes p + 1, high byte at
\* SP - 1 and low byte at SP - 2, sets PC to opcode & 0x38 and takes 16
\* cycles; a RET executed next returns to p + 1 with SP restored.
C36_RstThenRet ==
    LET p   == hist.cpu0.pc
        sp0 == hist.cpu0.sp
        nxt == (p + 1) % 65536
    IN  /\ (last.op = "execute" /\ hist.steps = 1 /\ last.val \in RstOpcodes) =>
               /\ fault = "none"
               /\ cpu = [hist.cpu0 EXCEPT !.pc = last.val - 199,
                                          !.sp = (sp0 + 65534) % 65536]
               /\ cpu.pc \in {0, 8, 16, 24, 32, 40, 48, 56}
               /\ Memory_read_byte(memory, (sp0 + 65535) % 65536).val = nxt \div 256
               /\ Memory_read_byte(memory, (sp0 + 65534) % 65536).val = nxt % 256
               /\ last.cycles = 16
        /\ (last.op = "execute" /\ hist.steps = 2 /\ last.val = 201) =>
               /\ fault = "none"
               /\ cpu = [hist.cpu0 EXCEPT !.pc = nxt]

\* RST 28 (0xEF) at 0xD0FF with SP = 0xE000: the RET at 0x0028 came back to
\* 0xD100, whose bytes 0xD1 and 0x00 lie at 0xDFFF and 0xDFFE
C36_Witness ==
    /\ last.op = "execute" /\ fault = "none" /\ hist.steps = 2
    /\ last.val = 201 /\ last.pre.pc = 40
    /\ hist.cpu0.pc = 53503
    /\ cpu.pc = 53504 /\ cpu.sp = 57344
    /\ Memory_read_byte(memory, 57343).val = 209
    /\ Memory_read_byte(memory, 57342).val = 0

\* the number of LD A,n; LD (HL+),A groups of the program at 0xC000
C37_Fills ==
    Cardinality({j \in 0 .. MaxFill :
        \A i \in 0 .. j : Memory_read_byte(memory, 49152 + 3 * i).val = 62})

\* C37: LD (HL+),A and LD (HL-),A write A at the old HL, LD A,(HL+) and
\* LD A,(HL-) load A from the old HL, and each then sets HL to the old HL + 1
\* or - 1 modulo 2^16, in 8 cycles and without changing any flag; k
\* consecutive LD (HL+),A starting at HL = h store the k values of A at h,
\* h + 1, ..., h + k - 1 and leave HL = h + k.
C37_PostUpdateLoads ==
    /\ [][(last'.op = "execute" /\ last'.val \in LdiOpcodes) =>
            LET op    == last'.val
                old   == hl(cpu)
                w     == IF op \in {34, 42} THEN (old + 1) % 65536
                         ELSE (old + 65535) % 65536
                next  == [cpu EXCEPT !.h = w \div 256, !.l = w % 256,
                                     !.pc = (cpu.pc + 1) % 65536]
            IN  /\ fault' = "none"
                /\ last'.cycles = 8
                /\ op \in {34, 50} =>
                       /\ cpu' = next
                       /\ memory' = [memory EXCEPT !.data =
                                        VecSet(memory.data, old, cpu.a)]
                /\ op \in {42, 58} =>
                       /\ cpu' = [next EXCEPT
                                    !.a = Memory_read_byte(memory, old).val]
                       /\ memory' = memory]_vars
    /\ [](\A n \in 1 .. C37_Fills :
            (fault = "none" /\ hist.steps = 2 * n) =>
                /\ hl(cpu) = (hl(hist.cpu0) + n) % 65536
                /\ \A j \in 0 .. n - 1 :
                       Memory_read_byte(memory, (hl(hist.cpu0) + j) % 65536).val
                           = Memory_read_byte(memory, 49153 + 3 * j).val)

\* three stores from HL = 0xFFFF left 0x10, 0x11, 0x00 at 0xFFFF, 0x0000,
\* 0x0001 and HL = 0x0002
C37_Witness ==
    /\ last.op = "execute" /\ last.val = 34 /\ fault = "none"
    /\ hist.steps = 6 /\ C37_Fills = 3
    /\ hl(hist.cpu0) = 65535 /\ hl(cpu) = 2
    /\ Memory_read_byte(memory, 65535).val = 16
    /\ Memory_read_byte(memory, 0).val = 17
    /\ Memory_read_byte(memory, 1).val = 0

\* the address after a, wrapping at 2^16
C38_Next(a) == (a + 1) % 65536

\* both bytes of the word at a are kept in the bus's own array
C38_BackingPair(a) ==
    /\ C23_Backing(a, memory.cartridge # <<>>)
    /\ C23_Backing(C38_Next(a), memory.cartridge # <<>>)

\* C38: write_word(a, w) stores w & 0xFF at a and w >> 8 at (a + 1) mod 2^16,
\* and read_word(a) returns read_byte(a) | (read_byte((a + 1) mod 2^16) << 8),
\* so at a = 0xFFFF the high byte is at 0x0000; for two backing addresses
\* write_word(a, w) followed by read_word(a) returns w; LD (nn),SP stores SP
\* in this layout.
C38_WordHelpers ==
    [][/\ (last'.op = "write_word" /\ fault' = "none") =>
              LET a  == last'.addr
                  w1 == Memory_write_byte(memory, a, last'.val % 256)
                  w2 == Memory_write_byte(w1.mem, C38_Next(a), last'.val \div 256)
              IN  /\ memory' = w2.mem
                  /\ C38_BackingPair(a) =>
                         /\ Memory_read_byte(memory', a).val = last'.val % 256
                         /\ Memory_read_byte(memory', C38_Next(a)).val
                                = last'.val \div 256
       /\ (last'.op = "write_word" /\ C38_BackingPair(last'.addr)) =>
              fault' = "none"
       /\ (last'.op = "read_word" /\ fault' = "none") =>
              /\ last'.ret = Memory_read_byte(memory, last'.addr).val
                     + 256 * Memory_read_byte(memory, C38_Next(last'.addr)).val
              /\ (last.op = "write_word" /\ last.addr = last'.addr
                      /\ C38_BackingPair(last.addr)) => last'.ret = last.val
       /\ (last'.op = "execute" /\ last'.val = 8) =>
              LET nn == Memory_read_byte(memory, (cpu.pc + 1) % 65536).val
                        + 256 * Memory_read_byte(memory, (cpu.pc + 2) % 65536).val
                  w1 == Memory_write_byte(memory, nn, cpu.sp % 256)
                  w2 == Memory_write_byte(w1.mem, C38_Next(nn), cpu.sp \div 256)
              IN  (w1.fault = "none" /\ w2.fault = "none") =>
                      /\ fault' = "none"
                      /\ memory' = w2.mem
                      /\ cpu' = [cpu EXCEPT !.pc = (cpu.pc + 3) % 65536]
                      /\ last'.cycles = 20
                      /\ C38_BackingPair(nn) =>
                             Memory_read_word(memory', nn).val = cpu.sp]_vars

\* write_word(0xFFFF, 0x1234) then read_word(0xFFFF) returned 0x1234, with
\* 0x34 at 0xFFFF and 0x12 at 0x0000
C38_Witness ==
    /\ last.op = "read_word" /\ last.addr = 65535 /\ last.ret = 4660
    /\ last.wrote = {65535} /\ last.val = 4660
    /\ fault = "none"
    /\ Memory_read_byte(memory, 65535).val = 52
    /\ Memory_read_byte(memory, 0).val = 18

\* C39: a ROM-only cartridge and a cartridge of an unrecognized type ignore
\* every write: no write to 0x0000-0x7FFF or 0xA000-0xBFFF changes rom_bank,
\* ram_bank, ram_enabled, banking_mode, ROM or RAM, so 0x4000-0x7FFF always
\* reads ROM bank 1 and 0xA000-0xBFFF always reads 0xFF; with any cartridge
\* loaded, writes to these two ranges never change the bus backing array.
C39_PlainCartridges ==
    /\ [](~IsMbc1(Cart) => Cart = Cartridge_load(hist.file[1])[1])
    /\ [][/\ (last'.op = "write" /\ InCartridgeRange(last'.addr)) =>
                /\ fault' = "none"
                /\ memory'.data = memory.data
                /\ ~IsMbc1(Cart) => memory'.cartridge = memory.cartridge
          /\ (last'.op = "read" /\ ~IsMbc1(Cart)) =>
                /\ fault' = "none"
                /\ (last'.addr >= 16384 /\ last'.addr <= 32767) =>
                       last'.ret = RomAt(Cart.rom, 16384 + (last'.addr - 16384))
                /\ (last'.addr >= 40960 /\ last'.addr <= 49151) =>
                       last'.ret = 255]_vars

\* a type 0xFC cartridge with 32 KiB of RAM after three writes: 0xBFFF
\* reads 0xFF, the latches are as loaded and 0x4000 shows bank 1
C39_Witness ==
    /\ hist.ops = 3 /\ fault = "none"
    /\ last.op = "read" /\ last.addr = 49151 /\ last.ret = 255
    /\ Cart.header.cartridge_type = "Unknown"
    /\ Cart.ram_len = 32768
    /\ ~Cart.ram_enabled /\ Cart.rom_bank = 1
    /\ Memory_read_byte(memory, 16384).val = RomAt(Cart.rom, 16384)

\* x with the other value of the interrupt-master-enable flag and the
\* complement of the byte at 0xFFFF
C40_OtherEnables(x) ==
    [x EXCEPT !.cpu.interrupts_enabled = ~@,
              !.mem.data = VecSet(@, 65535, 255 - VecGet(x.mem.data, 65535))]

\* C40: the core only records interrupt requests.  If the instruction of a
\* step does not itself write 0xFF0F, every bit of 0xFF0F set before
\* GameBoy::step is still set after it and the step changes at most bit 2;
\* what step does after the instruction does not depend on 0xFFFF or on the
\* interrupt-master-enable flag; PC, SP and the other registers are as the
\* instruction left them whatever is pending; halted is never cleared.
C40_RequestsOnlyRecorded ==
    [][(last'.op = "step" /\ fault' = "none") =>
          LET x      == execute(cpu, memory)
              before == Memory_read_byte(memory, IF_ADDR).val
              after  == Memory_read_byte(memory', IF_ADDR).val
              s      == StepAfterExecute(x)
              o      == StepAfterExecute(C40_OtherEnables(x))
          IN  /\ IF_ADDR \notin last'.wrote =>
                     /\ BitAnd(after, before) = before
                     /\ BitXor(after, before) \in {0, 4}
              /\ cpu' = x.cpu
              /\ last'.val = 0 =>
                     cpu' = [cpu EXCEPT !.pc = (cpu.pc + 1) % 65536]
              /\ cpu.halted => cpu'.halted
              /\ o.overflow = s.overflow
              /\ o.mem = C40_OtherEnables([x EXCEPT !.mem = s.mem]).mem]_vars

\* NOP stepped while halted with the master enable set, IE = 0x1F and
\* 0xFF0F = 0x1B: 0xFF0F is 0x1F, PC is 0xC001, SP is 0xFFFE and the CPU is
\* still halted
C40_Witness ==
    /\ last.op = "step" /\ fault = "none" /\ last.val = 0
    /\ hist.steps = 1
    /\ last.pre.halted /\ last.pre.interrupts_enabled
    /\ last.ifBefore = 27
    /\ Memory_read_byte(memory, 65535).val = 31
    /\ IFByte = 31
    /\ cpu.pc = 49153 /\ cpu.sp = 65534 /\ cpu.halted

=============================================================================
